---- MODULE Spec2Model ----
(***************************************************************************)
(* Model of the chunking core of asset-aware-mcp (src/domain/chunking.py). *)
(* A text is a sequence of one-character strings; offsets are 0-based as   *)
(* in Python, so the character at Python offset i is s[i+1].               *)
(***************************************************************************)
EXTENDS Integers, Sequences, FiniteSets, TLC

\* ------------------------------------------------------------------------
\* Python string primitives
\* ------------------------------------------------------------------------

\* str.isspace() over the characters the model uses
Whitespace == {" ", "\n", "\t"}

Digits == {"0", "1", "2", "3", "4", "5", "6", "7", "8", "9"}

UpperChars == <<"A", "B", "C", "D", "E", "F", "G", "H", "I", "J", "K", "L", "M",
                "N", "O", "P", "Q", "R", "S", "T", "U", "V", "W", "X", "Y", "Z">>

LowerChars == <<"a", "b", "c", "d", "e", "f", "g", "h", "i", "j", "k", "l", "m",
                "n", "o", "p", "q", "r", "s", "t", "u", "v", "w", "x", "y", "z">>

Upper == {UpperChars[k] : k \in 1..26}

Min2(a, b) == IF a < b THEN a ELSE b

Max2(a, b) == IF a > b THEN a ELSE b

\* Python slice index normalisation: negative indices count from the end,
\* then the index is clamped to 0..len
PyIndex(n, i) == IF i < 0 THEN Max2(n + i, 0) ELSE Min2(i, n)

\* s[a:b]
PySlice(s, a, b) ==
    LET lo == PyIndex(Len(s), a)
        hi == PyIndex(Len(s), b)
    IN IF lo >= hi THEN <<>> ELSE SubSeq(s, lo + 1, hi)

\* s[a:]
PySliceFrom(s, a) == PySlice(s, a, Len(s))

\* s[:b]
PySliceTo(s, b) == PySlice(s, 0, b)

\* s[-n:]  (Python evaluates -n first, so s[-0:] is the whole string)
PyTail(s, n) == IF n = 0 THEN s ELSE PySlice(s, 0 - n, Len(s))

\* the least element of a non-empty set of integers
MinOf(S) == CHOOSE k \in S : \A j \in S : k <= j

\* the greatest element of a non-empty set of integers
MaxOf(S) == CHOOSE k \in S : \A j \in S : j <= k

\* str.strip()
PyStrip(s) ==
    LET keep == {k \in 1..Len(s) : s[k] \notin Whitespace}
    IN IF keep = {} THEN <<>> ELSE SubSeq(s, MinOf(keep), MaxOf(keep))

\* str.rfind(c) for a single character c: highest offset, or -1
PyRFind(s, c) ==
    LET hits == {k \in 1..Len(s) : s[k] = c}
    IN IF hits = {} THEN 0 - 1 ELSE MaxOf(hits) - 1

\* `sub in s`
PyContains(s, sub) ==
    \E k \in 0..(Len(s) - Len(sub)) : SubSeq(s, k + 1, k + Len(sub)) = sub

\* str.lower()
LowerChar(c) ==
    IF c \in Upper
    THEN LowerChars[CHOOSE k \in 1..26 : UpperChars[k] = c]
    ELSE c

PyLower(s) == [k \in 1..Len(s) |-> LowerChar(s[k])]

\* int(digits)
DigitValue(c) ==
    CASE c = "0" -> 0 [] c = "1" -> 1 [] c = "2" -> 2 [] c = "3" -> 3
      [] c = "4" -> 4 [] c = "5" -> 5 [] c = "6" -> 6 [] c = "7" -> 7
      [] c = "8" -> 8 [] c = "9" -> 9

RECURSIVE PyInt(_)
PyInt(ds) ==
    IF ds = <<>> THEN 0
    ELSE 10 * PyInt(SubSeq(ds, 1, Len(ds) - 1)) + DigitValue(ds[Len(ds)])

\* int(n * 0.8): the float product truncates to floor(4n/5) for every n the
\* model can reach
Int08(n) == (4 * n) \div 5

\* ------------------------------------------------------------------------
\* Backtracking regular-expression matcher (Python `re` semantics)
\* A pattern is a record tree; ReMatch gives the end offsets of every way
\* the pattern can match at offset i, in the order the backtracking engine
\* tries them, so the head of the result is the match `re` reports.
\* ------------------------------------------------------------------------

ReCls(S) == [t |-> "cls", s |-> S]

ReLit(c) == ReCls({c})

\* [^...]: any character, a newline included, that is not in S
ReNot(S) == [t |-> "ncls", s |-> S]

ReDot == [t |-> "dot"]

ReBol == [t |-> "bol"]

ReEol == [t |-> "eol"]

ReCat(rs) == [t |-> "cat", rs |-> rs]

ReAlt(rs) == [t |-> "alt", rs |-> rs]

\* greedy repetition {lo,hi} of a one-character pattern (every repetition
\* in the source's patterns is of a character class or of `.`); hi = -1
\* means unbounded
ReRep(r, lo, hi) == [t |-> "rep", r |-> r, lo |-> lo, hi |-> hi]

ReStar(r) == ReRep(r, 0, 0 - 1)

RePlus(r) == ReRep(r, 1, 0 - 1)

\* greedy repetition (?:r)+ of a group
ReMany(r) == [t |-> "many", r |-> r]

\* does the one-character pattern r accept character c
ReCharOk(r, c) ==
    IF r.t = "dot" THEN c # "\n"
    ELSE IF r.t = "ncls" THEN c \notin r.s
    ELSE c \in r.s

\* the number of consecutive characters from offset i that r accepts
ReRun(r, s, i) ==
    LET stops == {k \in (i + 1)..Len(s) : ~ReCharOk(r, s[k])}
    IN (IF stops = {} THEN Len(s) ELSE MinOf(stops) - 1) - i

RECURSIVE ReMatch(_, _, _), ReMatchEach(_, _, _, _, _), ReMatchCat(_, _, _, _),
          ReMatchAlt(_, _, _, _), ReMatchMany(_, _, _, _, _)

ReMatch(r, s, i) ==
    CASE r.t = "cls" -> IF i < Len(s) /\ s[i + 1] \in r.s THEN <<i + 1>> ELSE <<>>
      [] r.t = "dot" -> IF i < Len(s) /\ s[i + 1] # "\n" THEN <<i + 1>> ELSE <<>>
      [] r.t = "ncls" -> IF i < Len(s) /\ s[i + 1] \notin r.s THEN <<i + 1>> ELSE <<>>
      [] r.t = "bol" -> IF i = 0 \/ s[i] = "\n" THEN <<i>> ELSE <<>>
      [] r.t = "eol" -> IF i = Len(s) \/ s[i + 1] = "\n" THEN <<i>> ELSE <<>>
      [] r.t = "cat" -> ReMatchCat(r.rs, 1, s, <<i>>)
      [] r.t = "alt" -> ReMatchAlt(r.rs, 1, s, i)
      [] r.t = "many" -> ReMatchMany(r, s, i, ReMatch(r.r, s, i), 1)
      [] r.t = "rep" ->
            \* longest first, then giving back one character at a time
            LET run == ReRun(r.r, s, i)
                top == IF r.hi < 0 THEN run ELSE Min2(run, r.hi)
            IN IF top < r.lo THEN <<>>
               ELSE [k \in 1..(top - r.lo + 1) |-> i + top - (k - 1)]

\* the matches of r at each of starts[lo..hi], in order
ReMatchEach(r, s, starts, lo, hi) ==
    IF lo > hi THEN <<>>
    ELSE IF lo = hi THEN ReMatch(r, s, starts[lo])
    ELSE LET mid == (lo + hi) \div 2
         IN ReMatchEach(r, s, starts, lo, mid) \o ReMatchEach(r, s, starts, mid + 1, hi)

ReMatchCat(rs, k, s, ends) ==
    IF ends = <<>> THEN <<>>
    ELSE IF k > Len(rs) THEN ends
    ELSE ReMatchCat(rs, k + 1, s, ReMatchEach(rs[k], s, ends, 1, Len(ends)))

ReMatchAlt(rs, k, s, i) ==
    IF k > Len(rs) THEN <<>>
    ELSE ReMatch(rs[k], s, i) \o ReMatchAlt(rs, k + 1, s, i)

\* (?:r)+ at offset i, given the ways ends of one r at i: after each way,
\* first every way of going on with more repetitions, then stopping there
ReMatchMany(r, s, i, ends, k) ==
    IF k > Len(ends) THEN <<>>
    ELSE (IF ends[k] > i THEN ReMatch(r, s, ends[k]) ELSE <<>>)
         \o <<ends[k]>> \o ReMatchMany(r, s, i, ends, k + 1)

\* list(pattern.finditer(s)): the non-overlapping matches, left to right;
\* at[p] is the set holding the match that starts at offset p, if any
RECURSIVE ReFindIterFrom(_, _, _)
ReFindIterFrom(at, n, pos) ==
    LET hits == {p \in pos..n : at[p] # {}}
    IN IF hits = {} THEN <<>>
       ELSE LET start == MinOf(hits)
                end == CHOOSE e \in at[start] : TRUE
            IN <<[start |-> start, end |-> end]>>
               \o ReFindIterFrom(at, n, IF end > start THEN end ELSE end + 1)

\* the match the engine reports among the ways ends, if there is one
ReFirst(ends) == IF ends = <<>> THEN {} ELSE {Head(ends)}

ReFindIter(r, s) ==
    ReFindIterFrom([p \in 0..Len(s) |-> ReFirst(ReMatch(r, s, p))], Len(s), 0)

\* pattern.split(s) for a pattern without groups
RECURSIVE ReSplitFrom(_, _, _, _)
ReSplitFrom(s, ms, k, from) ==
    IF k > Len(ms) THEN <<PySliceFrom(s, from)>>
    ELSE <<PySlice(s, from, ms[k].start)>> \o ReSplitFrom(s, ms, k + 1, ms[k].end)

ReSplit(r, s) == ReSplitFrom(s, ReFindIter(r, s), 1, 0)

\* the literal string cs as a pattern
ReStr(cs) == ReCat([k \in 1..Len(cs) |-> ReLit(cs[k])])

\* ------------------------------------------------------------------------
\* ChunkConfig / Chunk
\* ------------------------------------------------------------------------

\* ChunkConfig(chunk_size=cs, chunk_overlap=ov, min_chunk_size=mn,
\*             respect_sentences=rs); the remaining fields keep their defaults
ChunkConfig(cs, ov, mn, rs) ==
    [chunk_size |-> cs, chunk_overlap |-> ov, min_chunk_size |-> mn,
     respect_sentences |-> rs, respect_paragraphs |-> TRUE,
     include_metadata |-> TRUE]

\* the empty dict
EmptyDict == [k \in {} |-> 0]

\* Chunk(text=.., index=.., start_char=.., end_char=.., metadata=..)
Chunk(t, i, sc, ec, md) ==
    [text |-> t, index |-> i, start_char |-> sc, end_char |-> ec, metadata |-> md]

\* ------------------------------------------------------------------------
\* BasicChunker
\* ------------------------------------------------------------------------

\* sentence_endings[0]; the three full-width characters are written by
\* their code points
SentenceEndings == <<".", "U+3002", "!", "?", "U+FF01", "U+FF1F">>

RECURSIVE BestPos(_, _, _)
\* the `for ending in sentence_endings[0]` loop: the largest rfind result
BestPos(search_region, k, best_pos) ==
    IF k > Len(SentenceEndings) THEN best_pos
    ELSE LET pos == PyRFind(search_region, SentenceEndings[k])
         IN BestPos(search_region, k + 1, IF pos > best_pos THEN pos ELSE best_pos)

adjust_to_sentence(chunk_text, full_text, start, end) ==
    LET search_start == Int08(Len(chunk_text))
        search_region == PySliceFrom(chunk_text, search_start)
        best_pos == BestPos(search_region, 1, 0 - 1)
    IN IF best_pos >= 0
       THEN PySliceTo(chunk_text, search_start + best_pos + 1)
       ELSE chunk_text

\* a variant that steps by the window size instead of the emitted length
NextStart_ByWindow(start, chunk_text, config) ==
    start + config.chunk_size - config.chunk_overlap

\* `start = start + len(chunk_text) - config.chunk_overlap`
NextStart(start, chunk_text, config) ==
    start + Len(chunk_text) - config.chunk_overlap

\* the locals of BasicChunker.chunk on entry to the while loop
BasicEntry == [start |-> 0, index |-> 0, chunks |-> <<>>, done |-> FALSE]

\* one pass through the body of `while start < len(text)`; done is set by
\* a `break`
BasicBody(text, config, st) ==
    LET start == st.start
        end == start + config.chunk_size
    IN IF end >= Len(text)
       THEN LET chunk_text == PySliceFrom(text, start)
            IN [st EXCEPT !.chunks =
                              IF Len(chunk_text) >= config.min_chunk_size
                              THEN Append(@, Chunk(chunk_text, st.index, start,
                                                   Len(text), EmptyDict))
                              ELSE @,
                          !.done = TRUE]
       ELSE LET window == PySlice(text, start, end)
                chunk_text == IF config.respect_sentences
                              THEN adjust_to_sentence(window, text, start, end)
                              ELSE window
                emit == Len(chunk_text) >= config.min_chunk_size
                next == NextStart(start, chunk_text, config)
            IN [start |-> next,
                index |-> IF emit THEN st.index + 1 ELSE st.index,
                chunks |-> IF emit
                           THEN Append(st.chunks,
                                       Chunk(chunk_text, st.index, start,
                                             start + Len(chunk_text), EmptyDict))
                           ELSE st.chunks,
                done |-> next >= Len(text)]

\* The loop's control depends on start alone, so the loop runs forever
\* exactly when a start value repeats or start has fallen so far below zero
\* that every later window is empty.
\* The outcome of a call: the list it returns, or no return at all.
Returned(chunks) == [returns |-> TRUE, chunks |-> chunks]

Diverged == [returns |-> FALSE, chunks |-> <<>>]

RECURSIVE BasicRun(_, _, _, _)
BasicRun(text, config, st, seen) ==
    IF st.done \/ ~(st.start < Len(text)) THEN Returned(st.chunks)
    ELSE IF st.start \in seen \/ st.start < 0 - (Len(text) + config.chunk_size)
    THEN Diverged
    ELSE BasicRun(text, config, BasicBody(text, config, st), seen \cup {st.start})

\* BasicChunker().chunk(text, config) returns
BasicTerminates(text, config) ==
    BasicRun(text, config, BasicEntry, {}).returns

\* the list it returns
BasicChunker_chunk(text, config) ==
    BasicRun(text, config, BasicEntry, {}).chunks

\* ------------------------------------------------------------------------
\* SemanticChunker
\* ------------------------------------------------------------------------

ReSpace == ReCls(Whitespace)

\* ^(?:#{1,6}\s+.+|[A-Z][A-Z\s]{5,50}$|\d+\.\s+[A-Z].{5,50}$)  with re.MULTILINE
HEADING_PATTERN ==
    ReCat(<<ReBol,
            ReAlt(<<ReCat(<<ReRep(ReLit("#"), 1, 6), RePlus(ReSpace), RePlus(ReDot)>>),
                    ReCat(<<ReCls(Upper), ReRep(ReCls(Upper \cup Whitespace), 5, 50),
                            ReEol>>),
                    ReCat(<<RePlus(ReCls(Digits)), ReLit("."), RePlus(ReSpace),
                            ReCls(Upper), ReRep(ReDot, 5, 50), ReEol>>)>>)>>)

\* \n\s*\n
PARA_SEPARATOR == ReCat(<<ReLit("\n"), ReStar(ReSpace), ReLit("\n")>>)

Section(t, st, en, h) == [text |-> t, start |-> st, end |-> en, heading |-> h]

\* _split_by_headings after `matches = list(self.HEADING_PATTERN.finditer(text))`
SectionsBetween(text, matches) ==
    LET n == Len(matches)
        between == [i \in 1..n |->
                      LET start == matches[i].start
                          end == IF i + 1 <= n THEN matches[i + 1].start ELSE Len(text)
                      IN Section(PySlice(text, start, end), start, end,
                                 PySliceTo(PyStrip(PySlice(text, matches[i].start,
                                                           matches[i].end)), 50))]
    IN IF n = 0 THEN <<Section(text, 0, Len(text), <<>>)>>
       ELSE IF matches[1].start > 0
       THEN <<Section(PySliceTo(text, matches[1].start), 0, matches[1].start, <<>>)>>
            \o between
       ELSE between

split_by_headings(text) == SectionsBetween(text, ReFindIter(HEADING_PATTERN, text))

\* the locals of _split_by_paragraphs before its loop
ParaEntry(offset) ==
    [chunks |-> <<>>, current_text |-> <<>>, current_start |-> offset,
     chunk_index |-> 0]

\* one pass through the body of `for para in paragraphs`
ParaBody(raw, config, st) ==
    LET para == PyStrip(raw)
    IN IF para = <<>> THEN st
       ELSE IF Len(st.current_text) + Len(para) + 2 > config.chunk_size
       THEN LET emit == Len(st.current_text) >= config.min_chunk_size
                chunks == IF emit
                          THEN Append(st.chunks,
                                      Chunk(st.current_text, st.chunk_index,
                                            st.current_start,
                                            st.current_start + Len(st.current_text),
                                            EmptyDict))
                          ELSE st.chunks
                chunk_index == IF emit THEN st.chunk_index + 1 ELSE st.chunk_index
            IN IF config.chunk_overlap > 0 /\ st.current_text # <<>>
               THEN LET overlap_text == PyTail(st.current_text, config.chunk_overlap)
                        current_text == overlap_text \o <<"\n", "\n">> \o para
                    IN [chunks |-> chunks, current_text |-> current_text,
                        current_start |-> st.current_start + Len(current_text)
                                          - Len(overlap_text),
                        chunk_index |-> chunk_index]
               ELSE [chunks |-> chunks, current_text |-> para,
                     current_start |-> st.current_start + Len(para) + 2,
                     chunk_index |-> chunk_index]
       ELSE [st EXCEPT !.current_text = IF @ # <<>> THEN @ \o <<"\n", "\n">> \o para
                                        ELSE para]

RECURSIVE ParaLoop(_, _, _, _)
ParaLoop(paragraphs, k, config, st) ==
    IF k > Len(paragraphs) THEN st
    ELSE ParaLoop(paragraphs, k + 1, config, ParaBody(paragraphs[k], config, st))

\* a variant that appends the last chunk whatever its length
ParaExit_KeepLast(st, config) ==
    Append(st.chunks,
           Chunk(st.current_text, st.chunk_index, st.current_start,
                 st.current_start + Len(st.current_text), EmptyDict))

\* "Don't forget last chunk": _split_by_paragraphs after its loop
ParaExit(st, config) ==
    IF Len(st.current_text) >= config.min_chunk_size
    THEN Append(st.chunks,
                Chunk(st.current_text, st.chunk_index, st.current_start,
                      st.current_start + Len(st.current_text), EmptyDict))
    ELSE st.chunks

split_by_paragraphs(text, offset, config) ==
    ParaExit(ParaLoop(ReSplit(PARA_SEPARATOR, text), 1, config, ParaEntry(offset)),
             config)

\* dict item assignment  md[key] = val
SetItem(md, key, val) == (key :> val) @@ md

\* `for bc in basic_chunks`: relabel the chunks of a BasicChunker sub-call
\* (Diverged when the sub-call never returns)
RelabelBasic(basic, chunk_index, section_start, section_heading) ==
    IF ~basic.returns THEN Diverged
    ELSE Returned([k \in 1..Len(basic.chunks) |->
            LET bc == basic.chunks[k]
            IN Chunk(bc.text, chunk_index + k - 1, bc.start_char + section_start,
                     bc.end_char + section_start,
                     SetItem(bc.metadata, "heading", section_heading))])

\* `for pc in para_chunks`
RelabelPara(para_chunks, chunk_index, section_heading) ==
    [k \in 1..Len(para_chunks) |->
        LET pc == para_chunks[k]
        IN Chunk(pc.text, chunk_index + k - 1, pc.start_char, pc.end_char,
                 SetItem(pc.metadata, "heading", section_heading))]

\* a section larger than chunk_size, given its para_chunks
LargeSection(section, chunk_index, config, para_chunks) ==
    IF Len(para_chunks) = 1 /\ Len(para_chunks[1].text) > config.chunk_size
    THEN RelabelBasic(BasicRun(section.text, config, BasicEntry, {}), chunk_index,
                      section.start, section.heading)
    ELSE Returned(RelabelPara(para_chunks, chunk_index, section.heading))

\* the body of `for section in sections`: the chunks one section appends
SectionChunks(section, chunk_index, config) ==
    IF Len(section.text) <= config.chunk_size
    THEN IF Len(section.text) >= config.min_chunk_size
         THEN Returned(<<Chunk(section.text, chunk_index, section.start,
                               section.end, [heading |-> section.heading])>>)
         ELSE Returned(<<>>)
    ELSE LargeSection(section, chunk_index, config,
                      split_by_paragraphs(section.text, section.start, config))

RECURSIVE SectionLoop(_, _, _, _, _), SectionAppend(_, _, _, _, _, _)
\* `for section in sections`
SectionLoop(sections, k, config, chunks, chunk_index) ==
    IF k > Len(sections) THEN Returned(chunks)
    ELSE SectionAppend(sections, k, config, chunks, chunk_index,
                       SectionChunks(sections[k], chunk_index, config))

\* the loop goes on with what section k appended
SectionAppend(sections, k, config, chunks, chunk_index, more) ==
    IF ~more.returns THEN Diverged
    ELSE SectionLoop(sections, k + 1, config, chunks \o more.chunks,
                     chunk_index + Len(more.chunks))

SemanticRun(text, config) ==
    SectionLoop(split_by_headings(text), 1, config, <<>>, 0)

\* SemanticChunker().chunk(text, config) returns
SemanticTerminates(text, config) == SemanticRun(text, config).returns

\* the list it returns
SemanticChunker_chunk(text, config) == SemanticRun(text, config).chunks

\* ------------------------------------------------------------------------
\* PageAwareChunker
\* ------------------------------------------------------------------------

\* <!--\s*Page\s+(\d+)\s*-->  split around its group
PAGE_MARKER_PRE ==
    ReCat(<<ReStr(<<"<", "!", "-", "-">>), ReStar(ReSpace),
            ReStr(<<"P", "a", "g", "e">>), RePlus(ReSpace)>>)

PAGE_MARKER_GROUP == RePlus(ReCls(Digits))

PAGE_MARKER_POST == ReCat(<<ReStar(ReSpace), ReStr(<<"-", "-", ">">>)>>)

PAGE_MARKER == ReCat(<<PAGE_MARKER_PRE, PAGE_MARKER_GROUP, PAGE_MARKER_POST>>)

\* the first of two lists of alternatives that is not empty
OrElse(first, rest) == IF first # <<>> THEN first ELSE rest

RECURSIVE GroupInner(_, _, _, _), GroupOuter(_, _, _)
\* marker.group(1): the digits on the first path by which the whole pattern
\* matches
GroupInner(s, e1, e2s, k) ==
    IF k > Len(e2s) THEN <<>>
    ELSE IF ReMatch(PAGE_MARKER_POST, s, e2s[k]) # <<>>
    THEN <<PySlice(s, e1, e2s[k])>>
    ELSE GroupInner(s, e1, e2s, k + 1)

GroupOuter(s, e1s, k) ==
    IF k > Len(e1s) THEN <<>>
    ELSE OrElse(GroupInner(s, e1s[k], ReMatch(PAGE_MARKER_GROUP, s, e1s[k]), 1),
                GroupOuter(s, e1s, k + 1))

\* a variant whose group stops at the first digit
MarkerGroup1_FirstDigit(s, marker) ==
    PySliceTo(Head(GroupOuter(s, ReMatch(PAGE_MARKER_PRE, s, marker.start), 1)), 1)

MarkerGroup1(s, marker) ==
    Head(GroupOuter(s, ReMatch(PAGE_MARKER_PRE, s, marker.start), 1))

\* a variant that keeps the index the sub-call gave each chunk
RelabelPage_KeepIndex(semantic, chunk_index, start, page_num) ==
    IF ~semantic.returns THEN Diverged
    ELSE Returned([k \in 1..Len(semantic.chunks) |->
            LET sc == semantic.chunks[k]
            IN Chunk(sc.text, sc.index, sc.start_char + start,
                     sc.end_char + start, SetItem(sc.metadata, "page", page_num))])

\* `for sc in semantic_chunks`: relabel the chunks of a SemanticChunker
\* sub-call (Diverged when the sub-call never returns)
RelabelPage(semantic, chunk_index, start, page_num) ==
    IF ~semantic.returns THEN Diverged
    ELSE Returned([k \in 1..Len(semantic.chunks) |->
            LET sc == semantic.chunks[k]
            IN Chunk(sc.text, chunk_index + k - 1, sc.start_char + start,
                     sc.end_char + start, SetItem(sc.metadata, "page", page_num))])

\* the body of the page loop after page_num, start, end and page_text are set
Page(page_text, page_num, start, end, chunk_index, config) ==
    IF Len(page_text) <= config.chunk_size
    THEN IF Len(page_text) >= config.min_chunk_size
         THEN Returned(<<Chunk(page_text, chunk_index, start, end,
                               [page |-> page_num])>>)
         ELSE Returned(<<>>)
    ELSE RelabelPage(SemanticRun(page_text, config), chunk_index, start, page_num)

\* the body of the page loop: the chunks one page appends
PageChunks(text, markers, i, chunk_index, config) ==
    LET start == markers[i].end
        end == IF i + 1 <= Len(markers) THEN markers[i + 1].start ELSE Len(text)
    IN Page(PyStrip(PySlice(text, start, end)),
            PyInt(MarkerGroup1(text, markers[i])), start, end, chunk_index, config)

RECURSIVE PageLoop(_, _, _, _, _, _), PageAppend(_, _, _, _, _, _, _)
\* `for i, marker in enumerate(markers)`
PageLoop(text, markers, i, config, chunks, chunk_index) ==
    IF i > Len(markers) THEN Returned(chunks)
    ELSE PageAppend(text, markers, i, config, chunks, chunk_index,
                    PageChunks(text, markers, i, chunk_index, config))

\* the loop goes on with what page i appended
PageAppend(text, markers, i, config, chunks, chunk_index, more) ==
    IF ~more.returns THEN Diverged
    ELSE PageLoop(text, markers, i + 1, config, chunks \o more.chunks,
                  chunk_index + Len(more.chunks))

\* PageAwareChunker.chunk after `markers = list(self.PAGE_MARKER.finditer(text))`
PagesBetween(text, config, markers) ==
    IF markers = <<>> THEN SemanticRun(text, config)
    ELSE PageLoop(text, markers, 1, config, <<>>, 0)

PageAwareRun(text, config) ==
    PagesBetween(text, config, ReFindIter(PAGE_MARKER, text))

\* PageAwareChunker().chunk(text, config) returns
PageAwareTerminates(text, config) == PageAwareRun(text, config).returns

\* the list it returns
PageAwareChunker_chunk(text, config) == PageAwareRun(text, config).chunks

\* ------------------------------------------------------------------------
\* Utility functions
\* ------------------------------------------------------------------------

\* ChunkConfig(): the dataclass defaults
DefaultConfig == ChunkConfig(1000, 200, 100, TRUE)

\* ChunkConfig.for_document_type(doc_type)
for_document_type(doc_type) ==
    CASE doc_type = "general" -> ChunkConfig(1000, 200, 100, TRUE)
      [] doc_type = "technical" -> ChunkConfig(1500, 300, 100, TRUE)
      [] doc_type = "simple" -> ChunkConfig(800, 160, 100, TRUE)
      [] doc_type = "legal" -> ChunkConfig(1200, 400, 100, TRUE)
      [] doc_type = "medical" -> ChunkConfig(1000, 250, 100, TRUE)
      [] OTHER -> DefaultConfig

SimpleExtensions == <<<<".", "m", "d">>, <<".", "t", "x", "t">>, <<".", "r", "s", "t">>>>

medical_terms ==
    <<<<"p", "a", "t", "i", "e", "n", "t">>,
      <<"d", "i", "a", "g", "n", "o", "s", "i", "s">>,
      <<"t", "r", "e", "a", "t", "m", "e", "n", "t">>,
      <<"c", "l", "i", "n", "i", "c", "a", "l">>,
      <<"d", "r", "u", "g">>,
      <<"d", "o", "s", "e">>,
      <<"m", "g">>,
      <<"m", "l">>,
      <<"s", "y", "n", "d", "r", "o", "m", "e">>,
      <<"d", "i", "s", "e", "a", "s", "e">>>>

technical_terms ==
    <<<<"a", "l", "g", "o", "r", "i", "t", "h", "m">>,
      <<"i", "m", "p", "l", "e", "m", "e", "n", "t", "a", "t", "i", "o", "n">>,
      <<"f", "u", "n", "c", "t", "i", "o", "n">>,
      <<"c", "l", "a", "s", "s">>,
      <<"m", "e", "t", "h", "o", "d">>,
      <<"a", "p", "i">>,
      <<"c", "o", "d", "e">>,
      <<"p", "a", "r", "a", "m", "e", "t", "e", "r">>,
      <<"i", "m", "p", "o", "r", "t">>,
      <<"d", "e", "f", " ">>>>

legal_terms ==
    <<<<"h", "e", "r", "e", "b", "y">>,
      <<"w", "h", "e", "r", "e", "a", "s">>,
      <<"a", "g", "r", "e", "e", "m", "e", "n", "t">>,
      <<"p", "a", "r", "t", "y">>,
      <<"c", "l", "a", "u", "s", "e">>,
      <<"s", "e", "c", "t", "i", "o", "n">>,
      <<"l", "i", "a", "b", "i", "l", "i", "t", "y">>,
      <<"i", "n", "d", "e", "m", "n", "i", "f", "y">>>>

\* sum(1 for term in terms if term in text_sample)
TermHits(terms, text_sample) ==
    Cardinality({k \in 1..Len(terms) : PyContains(text_sample, terms[k])})

detect_document_type(text, filename) ==
    LET text_sample == PyLower(PySliceTo(text, 5000))
        filename_lower == PyLower(filename)
    IN IF \E k \in 1..Len(SimpleExtensions) :
             PyContains(filename_lower, SimpleExtensions[k])
       THEN "simple"
       ELSE IF TermHits(medical_terms, text_sample) >= 3 THEN "medical"
       ELSE IF TermHits(technical_terms, text_sample) >= 3 THEN "technical"
       ELSE IF TermHits(legal_terms, text_sample) >= 3 THEN "legal"
       ELSE "general"

\* a variant whose fallback for an unknown name is BasicChunker
get_chunker_DefaultBasic(strategy) ==
    CASE strategy = "basic" -> "BasicChunker"
      [] strategy = "semantic" -> "SemanticChunker"
      [] strategy = "page_aware" -> "PageAwareChunker"
      [] OTHER -> "BasicChunker"

\* get_chunker(strategy): the class of the chunker it instantiates
get_chunker(strategy) ==
    CASE strategy = "basic" -> "BasicChunker"
      [] strategy = "semantic" -> "SemanticChunker"
      [] strategy = "page_aware" -> "PageAwareChunker"
      [] OTHER -> "SemanticChunker"

\* chunker.chunk(text, config) for a chunker of the given class
ChunkerRun(chunker, text, config) ==
    CASE chunker = "BasicChunker" -> BasicRun(text, config, BasicEntry, {})
      [] chunker = "SemanticChunker" -> SemanticRun(text, config)
      [] chunker = "PageAwareChunker" -> PageAwareRun(text, config)

\* the absent custom_config
None == [none |-> TRUE]

PageLiteral == <<"<", "!", "-", "-", " ", "P", "a", "g", "e">>

smart_chunk(text, filename, strategy, custom_config) ==
    LET doc_type == detect_document_type(text, filename)
        config == IF custom_config # None THEN custom_config
                  ELSE for_document_type(doc_type)
        chosen == IF strategy = "auto"
                  THEN IF PyContains(text, PageLiteral) THEN "page_aware"
                       ELSE "semantic"
                  ELSE strategy
    IN ChunkerRun(get_chunker(chosen), text, config)

\* ------------------------------------------------------------------------
\* The calls as a state machine
\* ------------------------------------------------------------------------

VARIABLES
    text,      \* the text argument
    config,    \* the ChunkConfig argument
    call,      \* the call in progress or returned
    pc,        \* "idle", "loop" (inside BasicChunker.chunk's while loop), "returned"
    start,     \* BasicChunker.chunk's local `start`
    index,     \* BasicChunker.chunk's local `index`
    chunks,    \* BasicChunker.chunk's local `chunks`; the returned list once pc = "returned"
    result,    \* what a returned call that is not a chunk() call returned
    manifest,  \* the DocumentManifest that generate returned
    ingest,    \* DocumentService._ingest_single: its locals, the log and the repository
    service,   \* TableService: its cache (_tables) and the JSON files of its directory
    jobs       \* JobService: the job store and the background task of each job

vars == <<text, config, call, pc, start, index, chunks, result, manifest,
          ingest, service, jobs>>

\* the variables of the application services
application == <<ingest, service, jobs>>

\* no application service is in use
NoApplication == ingest = None /\ service = None /\ jobs = None

\* bounds of the model
MaxTextLen == 7

MaxChunkSize == 6

MaxMinChunkSize == 2

MaxChunks == 8

MaxPieces == 3

MaxSectionChunkSize == 3

NoCall == [op |-> "none", strategy |-> "", filename |-> <<>>, custom |-> FALSE]

DirectCall(cls) == [op |-> cls, strategy |-> "", filename |-> <<>>, custom |-> FALSE]

Configs(maxSize, maxMin) ==
    {ChunkConfig(cs, ov, mn, rs) :
        cs \in 1..maxSize, ov \in 0..(maxSize - 1), mn \in 0..maxMin,
        rs \in BOOLEAN}

\* the configurations that satisfy the invariant chunk_overlap < chunk_size
ValidConfigs(maxSize, maxMin) ==
    {c \in Configs(maxSize, maxMin) : c.chunk_overlap < c.chunk_size}

\* ---- BasicChunker.chunk, one loop iteration per step ----

BasicAlphabet == {"a", "."}

BasicTexts == UNION {[1..n -> BasicAlphabet] : n \in 0..MaxTextLen}

InitBasic ==
    /\ text \in BasicTexts
    /\ config \in ValidConfigs(MaxChunkSize, MaxChunkSize)
    /\ call = NoCall
    /\ pc = "idle"
    /\ start = 0
    /\ index = 0
    /\ chunks = <<>>
    /\ result = None
    /\ manifest = None
    /\ NoApplication

\* BasicChunker().chunk(text, config) is entered: chunks = [], start = 0, index = 0
BasicEnter ==
    /\ pc = "idle"
    /\ call' = DirectCall("BasicChunker")
    /\ pc' = "loop"
    /\ start' = BasicEntry.start
    /\ index' = BasicEntry.index
    /\ chunks' = BasicEntry.chunks
    /\ UNCHANGED <<text, config, result, manifest, application>>

\* one iteration of `while start < len(text)`; a `break` returns
BasicIterate ==
    /\ pc = "loop"
    /\ start < Len(text)
    /\ Len(chunks) < MaxChunks
    /\ LET st == BasicBody(text, config,
                           [start |-> start, index |-> index, chunks |-> chunks,
                            done |-> FALSE])
       IN /\ start' = st.start
          /\ index' = st.index
          /\ chunks' = st.chunks
          /\ pc' = IF st.done THEN "returned" ELSE "loop"
    /\ UNCHANGED <<text, config, call, result, manifest, application>>

\* the loop condition fails: return chunks
BasicExit ==
    /\ pc = "loop"
    /\ ~(start < Len(text))
    /\ pc' = "returned"
    /\ UNCHANGED <<text, config, call, start, index, chunks, result, manifest, application>>

NextBasic == BasicEnter \/ BasicIterate \/ BasicExit

SpecBasic == InitBasic /\ [][NextBasic]_vars

\* C1: BasicChunker.chunk terminates whenever 0 <= chunk_overlap < chunk_size,
\* because the window start strictly increases on every iteration that
\* stays in the loop.
C1_StartStrictlyIncreases ==
    [][(pc = "loop" /\ pc' = "loop") => start' > start]_vars

\* the part of [0, len(text)) after the last emitted chunk
Uncovered == Len(text) - (IF chunks = <<>> THEN 0 ELSE chunks[Len(chunks)].end_char)

\* the emitted ranges start at 0 and each begins where the previous one ended
Contiguous ==
    /\ chunks # <<>> => chunks[1].start_char = 0
    /\ \A k \in 1..(Len(chunks) - 1) : chunks[k + 1].start_char = chunks[k].end_char

\* C7 as stated: with chunk_overlap = 0 and any chunk_size and
\* min_chunk_size, the emitted ranges are contiguous from 0 and only a
\* trailing remainder shorter than min_chunk_size is left uncovered.
C7_CoverageAnyMin ==
    (pc = "returned" /\ config.chunk_overlap = 0)
        => Contiguous /\ (Uncovered = 0 \/ Uncovered < config.min_chunk_size)

\* no interior window can fall below min_chunk_size: a full window has
\* chunk_size characters, one cut at a sentence end has more than
\* int(0.8 * chunk_size)
InteriorKept(c) ==
    c.min_chunk_size <= (IF c.respect_sentences THEN Int08(c.chunk_size) + 1
                         ELSE c.chunk_size)

\* C7 amended: the same coverage, for the configurations under which no
\* interior window is discarded for being shorter than min_chunk_size.
C7_Coverage ==
    (pc = "returned" /\ config.chunk_overlap = 0 /\ InteriorKept(config))
        => Contiguous /\ (Uncovered = 0 \/ Uncovered < config.min_chunk_size)

\* a first chunk cut at a sentence end, followed by a second chunk
C7_Witness ==
    /\ pc = "returned"
    /\ config.chunk_overlap = 0
    /\ config.min_chunk_size > 0
    /\ InteriorKept(config)
    /\ Len(chunks) >= 2
    /\ chunks[1].end_char < config.chunk_size

\* ---- the three strategies, one call per step ----

Heading == <<"\n", "#", " ", "a">>

Marker1 == <<"<", "!", "-", "-", " ", "P", "a", "g", "e", " ", "1", " ", "-", "-", ">">>

Marker12 == <<"<", "!", "-", "-", "P", "a", "g", "e", " ", "1", "2", "-", "-", ">">>

Pieces == {<<"a", "a">>, <<"\n", "\n">>, Heading, Marker1, Marker12}

RECURSIVE Concat(_)
Concat(ps) == IF ps = <<>> THEN <<>> ELSE Head(ps) \o Concat(Tail(ps))

PieceTexts == {Concat(ps) : ps \in UNION {[1..n -> Pieces] : n \in 0..MaxPieces}}

\* the documents of the unit tests, with every sentence cut down to "aa":
\* test_heading_detection, test_paragraph_splitting, test_page_marker_detection
HeadingsDocument ==
    <<"#", " ", "a", "\n", "\n", "a", "a", "\n", "\n", "#", " ", "a", "\n", "\n", "a", "a", "\n", "\n", "#", " ", "a", "\n", "\n", "a", "a", "\n">>

ParagraphsDocument == <<"a", "a", "\n", "\n", "a", "a", "\n", "\n", "a", "a">>

PagesDocument ==
    <<"<", "!", "-", "-", " ", "P", "a", "g", "e", " ", "1", " ", "-", "-", ">", "\n", "a", "a", "\n", "\n", "<", "!", "-", "-", " ", "P", "a", "g", "e", " ", "2", " ", "-", "-", ">", "\n", "a", "a", "\n", "\n", "<", "!", "-", "-", " ", "P", "a", "g", "e", " ", "3", " ", "-", "-", ">", "\n", "a", "a", "\n">>

\* two paragraphs followed by a headed section
MixedDocument == <<"a", "a", "\n", "\n", "a", "a", "\n", "#", " ", "a">>

TestDocuments == {HeadingsDocument, ParagraphsDocument, PagesDocument, MixedDocument}

Texts == PieceTexts \cup TestDocuments

\* respect_sentences keeps its default here: a window of fewer than six
\* characters is never shortened (SpecBasic covers the longer windows)
SectionConfigs ==
    {c \in ValidConfigs(MaxSectionChunkSize, MaxMinChunkSize) : c.respect_sentences}

Init ==
    /\ text \in Texts
    /\ config \in SectionConfigs
    /\ call = NoCall
    /\ pc = "idle"
    /\ start = 0
    /\ index = 0
    /\ chunks = <<>>
    /\ result = None
    /\ manifest = None
    /\ NoApplication

\* a call that returns hands its list to the caller
Return(run) ==
    /\ run.returns
    /\ chunks' = run.chunks

\* chunks = cls().chunk(text, config), for a call that returns
Call(cls) ==
    /\ pc = "idle"
    /\ Return(ChunkerRun(cls, text, config))
    /\ call' = DirectCall(cls)
    /\ pc' = "returned"
    /\ UNCHANGED <<text, config, start, index, result, manifest, application>>

BasicChunk == Call("BasicChunker")

SemanticChunk == Call("SemanticChunker")

PageAwareChunk == Call("PageAwareChunker")

Next == BasicChunk \/ SemanticChunk \/ PageAwareChunk

Spec == Init /\ [][Next]_vars

\* C2: every chunk any of the three strategies returns satisfies
\* 0 <= start_char <= end_char <= len(text).
C2_OffsetsWithinText ==
    pc = "returned"
        => \A k \in 1..Len(chunks) :
              /\ 0 <= chunks[k].start_char
              /\ chunks[k].start_char <= chunks[k].end_char
              /\ chunks[k].end_char <= Len(text)

\* C3: the returned chunks are in non-decreasing order of start_char.
C3_StartsNonDecreasing ==
    pc = "returned"
        => \A k \in 1..(Len(chunks) - 1) :
              chunks[k].start_char <= chunks[k + 1].start_char

\* C4: the i-th chunk of the returned list (counting from 0) has index i,
\* although candidates may be discarded and sub-strategies relabelled.
C4_IndicesSequential ==
    pc = "returned" => \A k \in 1..Len(chunks) : chunks[k].index = k - 1

\* a page-aware call whose second page went through the semantic sub-call
\* and came back as more than one chunk
C4_Witness ==
    /\ pc = "returned"
    /\ call.op = "PageAwareChunker"
    /\ Len(chunks) >= 3
    /\ \A k \in 1..3 : "page" \in DOMAIN chunks[k].metadata
    /\ chunks[1].metadata.page # chunks[2].metadata.page
    /\ chunks[2].metadata.page = chunks[3].metadata.page

\* C5: no returned chunk is shorter than min_chunk_size.
C5_MinChunkSize ==
    pc = "returned"
        => \A k \in 1..Len(chunks) : Len(chunks[k].text) >= config.min_chunk_size

\* a semantic call that kept a chunk and discarded the last characters of
\* the text for being too few
C5_Witness ==
    /\ pc = "returned"
    /\ call.op = "SemanticChunker"
    /\ config.min_chunk_size > 0
    /\ chunks # <<>>
    /\ text[Len(text)] \notin Whitespace
    /\ chunks[Len(chunks)].end_char < Len(text)

\* C6: no returned chunk is larger than chunk_size.
C6_MaxChunkSize ==
    pc = "returned"
        => \A k \in 1..Len(chunks) : Len(chunks[k].text) <= config.chunk_size

\* C8: for an empty or whitespace-only text every strategy returns the
\* empty list, whatever the text's length relative to min_chunk_size.
C8_WhitespaceGivesNoChunks ==
    (pc = "returned" /\ \A i \in 1..Len(text) : text[i] \in Whitespace)
        => chunks = <<>>

\* C9: when the text has k >= 1 page markers and every page's trimmed text
\* has a length in [min_chunk_size, chunk_size], PageAwareChunker returns
\* exactly k chunks, in marker order, the chunk of marker N carrying
\* metadata.page = N and the trimmed page text.
C9_OneChunkPerPage ==
    (pc = "returned" /\ call.op = "PageAwareChunker")
        => LET markers == ReFindIter(PAGE_MARKER, text)
               k == Len(markers)
               PageText(i) ==
                   PyStrip(PySlice(text, markers[i].end,
                                   IF i < k THEN markers[i + 1].start ELSE Len(text)))
               PageNum(i) ==
                   PyInt(SelectSeq(PySlice(text, markers[i].start, markers[i].end),
                                   LAMBDA c : c \in Digits))
           IN (/\ k >= 1
               /\ \A i \in 1..k : /\ Len(PageText(i)) >= config.min_chunk_size
                                   /\ Len(PageText(i)) <= config.chunk_size)
                  => /\ Len(chunks) = k
                     /\ \A i \in 1..k : /\ chunks[i].metadata.page = PageNum(i)
                                         /\ chunks[i].text = PageText(i)

\* the three pages of test_page_marker_detection, one chunk each
C9_Witness ==
    /\ pc = "returned"
    /\ call.op = "PageAwareChunker"
    /\ text = PagesDocument
    /\ config.min_chunk_size = 2
    /\ Len(chunks) = 3
    /\ chunks[3].metadata.page = 3

\* ---- smart_chunk, one call per step ----

\* the number of paragraphs in the body of a document
FillerLines == 26

\* a paragraph of one sentence, with the blank line after it
Paragraph == [i \in 1..48 |-> IF i = 48 THEN "." ELSE "a"] \o <<"\n", "\n">>

\* a body longer than the chunk_size of some presets and not of others
Filler == Concat([i \in 1..FillerLines |-> Paragraph])

\* the number of paragraphs in the body of a short document
ShortLines == 4

\* a body that every preset holds in one chunk and the custom_config splits
ShortFiller == Concat([i \in 1..ShortLines |-> Paragraph])

MedicalLine ==
    <<"p", "a", "t", "i", "e", "n", "t", " ", "d", "o", "s", "e", " ", "m", "g", ".", "\n", "\n">>

TechnicalLine ==
    <<"a", "p", "i", " ", "c", "o", "d", "e", " ", "i", "m", "p", "o", "r", "t", ".", "\n", "\n">>

LegalLine ==
    <<"h", "e", "r", "e", "b", "y", " ", "p", "a", "r", "t", "y", " ", "c", "l", "a", "u", "s", "e", ".", "\n", "\n">>

\* a long document of each detected type
LongTexts ==
    {Filler, MedicalLine \o Filler, TechnicalLine \o Filler, LegalLine \o Filler}

\* short documents without and with page markers: Marker12 matches
\* PAGE_MARKER and lacks the "<!-- Page" literal, PageLiteral alone does not
\* match PAGE_MARKER
ShortTexts ==
    {<<>>, ShortFiller, Marker1 \o <<"\n">> \o ShortFiller,
     Marker12 \o <<"\n">> \o ShortFiller,
     Marker1 \o <<"\n">> \o ShortFiller \o Marker12 \o <<"\n">> \o ShortFiller,
     PageLiteral \o <<"\n">> \o ShortFiller}

SmartTexts == LongTexts \cup ShortTexts

\* the custom_config of test_custom_config
SmartConfigs == {ChunkConfig(100, 20, 10, TRUE)}

Filenames == {<<>>, <<"n", ".", "M", "D">>}

Strategies == {"auto", "basic", "semantic", "page_aware", "unknown"}

InitSmart ==
    /\ text \in SmartTexts
    /\ config \in SmartConfigs
    /\ call = NoCall
    /\ pc = "idle"
    /\ start = 0
    /\ index = 0
    /\ chunks = <<>>
    /\ result = None
    /\ manifest = None
    /\ NoApplication

\* chunks = smart_chunk(text, filename, strategy, custom_config), for a call
\* that returns
SmartChunk ==
    /\ pc = "idle"
    /\ \E filename \in Filenames, strategy \in Strategies, custom \in BOOLEAN :
          /\ Return(smart_chunk(text, filename, strategy,
                                IF custom THEN config ELSE None))
          /\ call' = [op |-> "smart_chunk", strategy |-> strategy,
                      filename |-> filename, custom |-> custom]
    /\ pc' = "returned"
    /\ UNCHANGED <<text, config, start, index, result, manifest, application>>

NextSmart == SmartChunk

SpecSmart == InitSmart /\ [][NextSmart]_vars

\* C10: smart_chunk returns what the selected strategy's chunk(text, config)
\* returns, where config is custom_config if given and else the preset of
\* the detected document type, "auto" selects PageAwareChunker exactly when
\* the text contains "<!-- Page" and SemanticChunker otherwise, and an
\* unknown strategy name falls back to SemanticChunker.
C10_SmartChunk ==
    (pc = "returned" /\ call.op = "smart_chunk")
        => LET cfg == IF call.custom THEN config
                      ELSE for_document_type(detect_document_type(text, call.filename))
               cls == CASE call.strategy = "auto" ->
                              IF PyContains(text, PageLiteral) THEN "PageAwareChunker"
                              ELSE "SemanticChunker"
                        [] call.strategy = "basic" -> "BasicChunker"
                        [] call.strategy = "page_aware" -> "PageAwareChunker"
                        [] OTHER -> "SemanticChunker"
           IN chunks = ChunkerRun(cls, text, cfg).chunks

\* an unknown strategy name on a document that the preset of its detected
\* type splits into several chunks
C10_Witness ==
    /\ pc = "returned"
    /\ call.op = "smart_chunk"
    /\ call.strategy = "unknown"
    /\ ~call.custom
    /\ Len(chunks) >= 2
    /\ "heading" \in DOMAIN chunks[1].metadata

\* ---- detect_document_type, one call per step ----

\* the number of keyword pieces in a text
MaxTerms == 3

\* text[:5000]
SampleLimit == 5000

\* keyword pieces: three hits of one list in one piece, and single words
TermPieces ==
    {MedicalLine, TechnicalLine, LegalLine, <<"D", "r", "u", "g", " ">>,
     <<"a", "p", "i", " ">>, <<"p", "a", "r", "t", "y", " ">>}

\* a body without keywords that fills the sample up to n characters
Padding(n) == [i \in 1..n |-> IF i % 8 = 0 THEN " " ELSE "x"]

\* short texts of keyword pieces; three medical keywords that lie beyond the
\* sample, and three that straddle its end
DetectTexts ==
    {Concat(ps) : ps \in UNION {[1..n -> TermPieces] : n \in 0..MaxTerms}}
        \cup {Padding(SampleLimit) \o MedicalLine,
              Padding(SampleLimit - 10) \o MedicalLine}

DetectFilenames ==
    {<<>>, <<"n", ".", "M", "D">>, <<"n", ".", "t", "x", "t">>,
     <<"n", ".", "r", "s", "t">>, <<"n", ".", "p", "d", "f">>,
     <<"n", ".", "m", "d", ".", "b", "a", "k">>}

InitDetect ==
    /\ text \in DetectTexts
    /\ config = DefaultConfig
    /\ call = NoCall
    /\ pc = "idle"
    /\ start = 0
    /\ index = 0
    /\ chunks = <<>>
    /\ result = None
    /\ manifest = None
    /\ NoApplication

\* result = detect_document_type(text, filename)
Detect ==
    /\ pc = "idle"
    /\ \E filename \in DetectFilenames :
          /\ result' = detect_document_type(text, filename)
          /\ call' = [op |-> "detect_document_type", strategy |-> "",
                      filename |-> filename, custom |-> FALSE]
    /\ pc' = "returned"
    /\ UNCHANGED <<text, config, start, index, chunks, manifest, application>>

NextDetect == Detect

SpecDetect == InitDetect /\ [][NextDetect]_vars

\* the part of a filename from its last "." on, in lower case
Extension(filename) ==
    LET dots == {k \in 1..Len(filename) : filename[k] = "."}
    IN IF dots = {} THEN <<>>
       ELSE PyLower(SubSeq(filename, MaxOf(dots), Len(filename)))

\* the number of terms of a list that occur in the lower-cased first 5000
\* characters
Hits(terms, t) ==
    LET sample == PyLower(SubSeq(t, 1, Min2(Len(t), SampleLimit)))
    IN Cardinality({k \in 1..Len(terms) :
          \E p \in 0..(Len(sample) - Len(terms[k])) :
              SubSeq(sample, p + 1, p + Len(terms[k])) = terms[k]})

\* C11: detect_document_type returns SIMPLE exactly when the filename's
\* extension is .md, .txt or .rst; otherwise MEDICAL, TECHNICAL, LEGAL for
\* the first of the three lists with at least 3 keyword hits in the
\* lower-cased first 5000 characters, and GENERAL when there is none.
C11_DetectDocumentType ==
    (pc = "returned" /\ call.op = "detect_document_type")
        => result =
             IF \E k \in 1..Len(SimpleExtensions) :
                   Extension(call.filename) = SimpleExtensions[k]
             THEN "simple"
             ELSE IF Hits(medical_terms, text) >= 3 THEN "medical"
             ELSE IF Hits(technical_terms, text) >= 3 THEN "technical"
             ELSE IF Hits(legal_terms, text) >= 3 THEN "legal"
             ELSE "general"

\* ------------------------------------------------------------------------
\* domain/services.py: ManifestGenerator and AssetExtractor
\* ------------------------------------------------------------------------

\* s.split("\n")
PySplitLines(s) ==
    LET nl == {i \in 1..Len(s) : s[i] = "\n"}
        at == [k \in 0..(Cardinality(nl) + 1) |->
                 IF k = 0 THEN 0
                 ELSE IF k = Cardinality(nl) + 1 THEN Len(s) + 1
                 ELSE CHOOSE p \in nl : Cardinality({q \in nl : q < p}) = k - 1]
    IN [k \in 1..(Cardinality(nl) + 1) |-> SubSeq(s, at[k - 1] + 1, at[k] - 1)]

\* s.count(c) for a one-character c
PyCount(s, c) == Cardinality({i \in 1..Len(s) : s[i] = c})

\* s.replace("\n", " ")
PyReplaceNewlines(s) == [i \in 1..Len(s) |-> IF s[i] = "\n" THEN " " ELSE s[i]]

\* s.startswith(prefix)
PyStartsWith(s, prefix) ==
    Len(s) >= Len(prefix) /\ SubSeq(s, 1, Len(prefix)) = prefix

RECURSIVE PyStr(_)
\* str(n) of a non-negative integer, as in f"tab_{match_idx + 1}"
PyStr(n) ==
    LET d == <<"0", "1", "2", "3", "4", "5", "6", "7", "8", "9">>[(n % 10) + 1]
    IN IF n < 10 THEN <<d>> ELSE PyStr(n \div 10) \o <<d>>

\* (\|[^\n]+\|\n\|[-:\| ]+\|\n(?:\|[^\n]+\|\n?)+)
table_pattern ==
    ReCat(<<ReLit("|"), RePlus(ReDot), ReLit("|"), ReLit("\n"),
            ReLit("|"), RePlus(ReCls({"-", ":", "|", " "})), ReLit("|"), ReLit("\n"),
            ReMany(ReCat(<<ReLit("|"), RePlus(ReDot), ReLit("|"),
                           ReRep(ReLit("\n"), 0, 1)>>))>>)

\* <!-- Page (\d+) -->
PageComment ==
    ReCat(<<ReStr(<<"<", "!", "-", "-", " ", "P", "a", "g", "e", " ">>),
            RePlus(ReCls(Digits)), ReStr(<<" ", "-", "-", ">">>)>>)

\* int(match.group(1)) for a match of PageComment in s
PageCommentNumber(s, match) == PyInt(PySlice(s, match.start + 10, match.end - 4))

\* the last value the loop of _find_page_at_position assigns to page
LastPage(prefix, matches) ==
    IF matches = <<>> THEN 1 ELSE PageCommentNumber(prefix, matches[Len(matches)])

find_page_at_position(markdown, position) ==
    LastPage(PySliceTo(markdown, position),
             ReFindIter(PageComment, PySliceTo(markdown, position)))

TableAsset(id, page, caption, preview, markdown, row_count, col_count) ==
    [id |-> id, page |-> page, caption |-> caption, preview |-> preview,
     markdown |-> markdown, row_count |-> row_count, col_count |-> col_count]

\* a variant that numbers the tables from 0
TableId_FromZero(match_idx) == <<"t", "a", "b", "_">> \o PyStr(match_idx)

\* a variant whose numbering goes on from the tables of the manifest that an
\* earlier call produced
TableId_Continuing(match_idx) ==
    <<"t", "a", "b", "_">>
        \o PyStr(match_idx + 1 + IF pc = "idle" THEN 0 ELSE Len(manifest.tables))

\* f"tab_{match_idx + 1}", match_idx counting from 0
TableId(match_idx) == <<"t", "a", "b", "_">> \o PyStr(match_idx + 1)

\* a variant that counts the separator row too
RowCount_AllLines(rows) == Len(rows)

\* a variant that counts the data rows only
RowCount_DataRows(rows) == Len(rows) - 2

\* `row_count = len(rows) - 1`
RowCount(rows) == Len(rows) - 1

\* the body of the loop of _parse_tables for the match numbered match_idx
ParsedTable(markdown, match_idx, match) ==
    LET table_text == PySlice(markdown, match.start, match.end)
        rows == SelectSeq(PySplitLines(PyStrip(table_text)),
                          LAMBDA r : PyStrip(r) # <<>>)
    IN TableAsset(TableId(match_idx),
                  find_page_at_position(markdown, match.start),
                  <<>>,
                  PyReplaceNewlines(PySliceTo(table_text, 100)),
                  table_text,
                  RowCount(rows),
                  IF rows # <<>> THEN PyCount(rows[1], "|") - 1 ELSE 0)

\* _parse_tables after re.finditer(table_pattern, markdown)
ParsedTables(markdown, matches) ==
    [k \in 1..Len(matches) |-> ParsedTable(markdown, k - 1, matches[k])]

parse_tables(markdown) == ParsedTables(markdown, ReFindIter(table_pattern, markdown))

\* a returned value that is not None
Some(v) == [none |-> FALSE, value |-> v]

\* a variant that numbers the matches from 0
ExtractedTable_FromZero(markdown, table_id, matches) ==
    LET found == {k \in 1..Len(matches) : TableId(k - 2) = table_id}
    IN IF found = {} THEN None
       ELSE Some(PySlice(markdown, matches[MinOf(found)].start,
                         matches[MinOf(found)].end))

\* extract_table_by_id after re.finditer: the first match whose id is table_id
ExtractedTable(markdown, table_id, matches) ==
    LET found == {k \in 1..Len(matches) : TableId(k - 1) = table_id}
    IN IF found = {} THEN None
       ELSE Some(PySlice(markdown, matches[MinOf(found)].start,
                         matches[MinOf(found)].end))

extract_table_by_id(markdown, table_id) ==
    ExtractedTable(markdown, table_id, ReFindIter(table_pattern, markdown))

\* ---- group boundaries of a match ----

\* <<i>> \o rest when the remaining parts matched, else what the next
\* alternative gives
PathOrElse(i, rest, other) == IF rest # <<>> THEN <<i>> \o rest ELSE other

RECURSIVE ReFirstPath(_, _, _, _), ReFirstPathAt(_, _, _, _, _, _)
\* the offsets <<i, e_k, ..., e_n>> at which the parts rs[k..n], matched one
\* after another from offset i, end on the first path the backtracking
\* search completes; <<>> when there is none
ReFirstPath(rs, k, s, i) ==
    IF k > Len(rs) THEN <<i>>
    ELSE ReFirstPathAt(rs, k, s, i, ReMatch(rs[k], s, i), 1)

ReFirstPathAt(rs, k, s, i, ends, j) ==
    IF j > Len(ends) THEN <<>>
    ELSE PathOrElse(i, ReFirstPath(rs, k + 1, s, ends[j]),
                    ReFirstPathAt(rs, k, s, i, ends, j + 1))

\* re.search: the path of the leftmost match at or after offset pos
ReSearchPath(rs, s, pos) ==
    LET starts == {p \in pos..Len(s) : ReFirstPath(rs, 1, s, p) # <<>>}
    IN IF starts = {} THEN <<>> ELSE ReFirstPath(rs, 1, s, MinOf(starts))

\* ---- ManifestGenerator._parse_sections ----

\* sep.join(parts)
PyJoin(sep, parts) ==
    IF parts = <<>> THEN <<>>
    ELSE Concat([k \in 1..(2 * Len(parts) - 1) |->
                    IF k % 2 = 1 THEN parts[(k + 1) \div 2] ELSE sep])

LowerAlnum ==
    Digits \cup {"a", "b", "c", "d", "e", "f", "g", "h", "i", "j", "k", "l", "m",
                 "n", "o", "p", "q", "r", "s", "t", "u", "v", "w", "x", "y", "z"}

\* ^(#{1,6})\s+(.+)$ as the parts ^, (#{1,6}), \s+, (.+), $
HeaderParts ==
    <<ReBol, ReRep(ReLit("#"), 1, 6), RePlus(ReSpace), RePlus(ReDot), ReEol>>

\* ^(#{1,6})\s+ as the parts ^, (#{1,6}), \s+
NextHeaderParts == <<ReBol, ReRep(ReLit("#"), 1, 6), RePlus(ReSpace)>>

\* \*\*([^*]+)\*\*
BoldPattern ==
    ReCat(<<ReLit("*"), ReLit("*"), RePlus(ReNot({"*"})), ReLit("*"), ReLit("*")>>)

RECURSIVE BoldRemoved(_, _, _, _)
\* re.sub(r"\*\*([^*]+)\*\*", r"\1", title) after finditer: the text between
\* the matches, and each match without its two asterisks on either side
BoldRemoved(title, matches, k, from) ==
    IF k > Len(matches) THEN PySliceFrom(title, from)
    ELSE PySlice(title, from, matches[k].start)
         \o PySlice(title, matches[k].start + 2, matches[k].end - 2)
         \o BoldRemoved(title, matches, k + 1, matches[k].end)

\* the title of a header line: group 2 stripped, bold removed, stripped
CleanTitle(line, header_match) ==
    PyStrip(BoldRemoved(PyStrip(PySlice(line, header_match[4], header_match[5])),
                        ReFindIter(BoldPattern,
                                   PyStrip(PySlice(line, header_match[4],
                                                   header_match[5]))),
                        1, 0))

\* f"sec_{re.sub(r'[^a-z0-9]', '_', title.lower())[:30]}"
SectionId(title) ==
    <<"s", "e", "c", "_">>
        \o PySliceTo([k \in 1..Len(title) |->
                        IF PyLower(title)[k] \in LowerAlnum
                        THEN PyLower(title)[k] ELSE "_"], 30)

\* a variant in which only a header of the same level ends a section
ClosesSection_SameLevel(level, next_header) ==
    next_header # <<>> /\ next_header[3] - next_header[2] = level

\* `next_header and len(next_header.group(1)) <= level`
ClosesSection(level, next_header) ==
    next_header # <<>> /\ next_header[3] - next_header[2] <= level

\* a variant that ends a section only at a shallower header
EndLine_Shallower(lines, i, level) ==
    LET closing == {j \in (i + 1)..(Len(lines) - 1) :
                       ClosesSection(level - 1,
                                     ReFirstPath(NextHeaderParts, 1, lines[j + 1], 0))}
    IN IF closing = {} THEN Len(lines) ELSE MinOf(closing)

\* a variant that ends a section at the next header of any level
EndLine_NextHeader(lines, i, level) ==
    LET closing == {j \in (i + 1)..(Len(lines) - 1) :
                       ReFirstPath(NextHeaderParts, 1, lines[j + 1], 0) # <<>>}
    IN IF closing = {} THEN Len(lines) ELSE MinOf(closing)

\* the loop that finds end_line for the header at line i
EndLine(lines, i, level) ==
    LET closing == {j \in (i + 1)..(Len(lines) - 1) :
                       ClosesSection(level,
                                     ReFirstPath(NextHeaderParts, 1, lines[j + 1], 0))}
    IN IF closing = {} THEN Len(lines) ELSE MinOf(closing)

\* the preview of the section that starts at line i
SectionPreview(lines, i, end_line) ==
    LET content_lines == PySlice(lines, i + 1, Min2(i + 5, end_line))
        kept == SelectSeq(content_lines,
                          LAMBDA ln : PyStrip(ln) # <<>>
                                        /\ ~PyStartsWith(ln, <<"<", "!", "-", "-">>))
    IN PySliceTo(PyJoin(<<" ">>, [k \in 1..Len(kept) |-> PyStrip(kept[k])]), 200)

SectionAsset(id, title, level, page, start_line, end_line, preview) ==
    [id |-> id, title |-> title, level |-> level, page |-> page,
     start_line |-> start_line, end_line |-> end_line, preview |-> preview]

\* the section appended for the header at line i
ParsedSection(lines, i, level, title, end_line, current_page) ==
    SectionAsset(SectionId(title), title, level, current_page, i, end_line,
                 SectionPreview(lines, i, end_line))

\* int(page_match.group(1)) for re.search: the first marker of the line
MarkerPage(line, page_matches) == PageCommentNumber(line, page_matches[1])

RECURSIVE SectionLines(_, _, _)
\* what one iteration of the loop over the lines does at line i
SectionLine(lines, i, current_page, page_matches, header_match) ==
    IF page_matches # <<>>
    THEN SectionLines(lines, i + 1, MarkerPage(lines[i + 1], page_matches))
    ELSE IF header_match # <<>> /\ CleanTitle(lines[i + 1], header_match) # <<>>
    THEN <<ParsedSection(lines, i, header_match[3] - header_match[2],
                         CleanTitle(lines[i + 1], header_match),
                         EndLine(lines, i, header_match[3] - header_match[2]),
                         current_page)>>
            \o SectionLines(lines, i + 1, current_page)
    ELSE SectionLines(lines, i + 1, current_page)

\* the sections of the lines from line i on
SectionLines(lines, i, current_page) ==
    IF i >= Len(lines) THEN <<>>
    ELSE SectionLine(lines, i, current_page,
                     ReFindIter(PageComment, lines[i + 1]),
                     ReFirstPath(HeaderParts, 1, lines[i + 1], 0))

parse_sections(markdown) == SectionLines(PySplitLines(markdown), 0, 1)

\* ---- AssetExtractor.extract_section_content ----

\* a variant whose range includes line end_line
extract_section_content_Inclusive(markdown, section) ==
    IF section.start_line >= Len(PySplitLines(markdown)) THEN <<>>
    ELSE PyJoin(<<"\n">>, PySlice(PySplitLines(markdown), section.start_line,
                                  section.end_line + 1))

extract_section_content(markdown, section) ==
    IF section.start_line >= Len(PySplitLines(markdown)) THEN <<>>
    ELSE PyJoin(<<"\n">>, PySlice(PySplitLines(markdown), section.start_line,
                                  section.end_line))

\* ---- ManifestGenerator._detect_title and generate ----

\* ^#\s+(.+)$ with re.MULTILINE as the parts ^, #, \s+, (.+), $
TitleParts == <<ReBol, ReLit("#"), RePlus(ReSpace), RePlus(ReDot), ReEol>>

\* the fallback of _detect_title: the first stripped line that is not empty
\* and does not start with "<!--", cut to 100 characters
FirstLine(lines) ==
    LET ok == {k \in 1..Len(lines) :
                  PyStrip(lines[k]) # <<>>
                    /\ ~PyStartsWith(PyStrip(lines[k]), <<"<", "!", "-", "-">>)}
    IN IF ok = {} THEN <<>> ELSE PySliceTo(PyStrip(lines[MinOf(ok)]), 100)

DetectedTitle(markdown, match) ==
    IF match # <<>> THEN PyStrip(PySlice(markdown, match[4], match[5]))
    ELSE FirstLine(PySplitLines(markdown))

detect_title(markdown) ==
    DetectedTitle(markdown, ReSearchPath(TitleParts, markdown, 0))

\* a variant that lists the titles of every level
Toc_AllLevels(sections) == [k \in 1..Len(sections) |-> sections[k].title]

\* toc = [s.title for s in sections if s.level <= 2]
Toc(sections) ==
    LET kept == SelectSeq(sections, LAMBDA sec : sec.level <= 2)
    IN [k \in 1..Len(kept) |-> kept[k].title]

\* the fields of the manifest that generate computes from the markdown
DocumentManifest(title, toc, tables, sections) ==
    [title |-> title, toc |-> toc, tables |-> tables, sections |-> sections]

\* generate(doc_id, filename, markdown, figures, page_count, markdown_path,
\* tables=tables)
generate(markdown, tables) ==
    DocumentManifest(detect_title(markdown),
                     Toc(parse_sections(markdown)),
                     IF tables # <<>> THEN tables ELSE parse_tables(markdown),
                     parse_sections(markdown))

\* ------------------------------------------------------------------------
\* generate, then extract_table_by_id, on markdown made of table blocks
\* ------------------------------------------------------------------------

\* the number of blocks in a markdown
MaxBlocks == 3

\* the number of data rows of a table block
MaxDataRows == 2

HeaderRow == <<"|", "a", "|", "b", "|", "\n">>

SeparatorRow == <<"|", "-", "|", "-", "|", "\n">>

DataRow == <<"|", "1", "|", "2", "|", "\n">>

\* a header row, a separator row and k data rows
TableBlock(k) == HeaderRow \o SeparatorRow \o Concat([j \in 1..k |-> DataRow])

\* a line of text, a heading, a page marker line, a separator row on its
\* own, and a row without a newline after it
TableBlocks ==
    {TableBlock(k) : k \in 1..MaxDataRows}
        \cup {<<"x", "\n">>,
              <<"#", "#", " ", "A", "\n">>,
              <<"<", "!", "-", "-", " ", "P", "a", "g", "e", " ", "2", " ",
                "-", "-", ">", "\n">>,
              SeparatorRow,
              <<"|", "c", "|">>}

TableTexts ==
    {Concat(bs) : bs \in UNION {[1..n -> TableBlocks] : n \in 0..MaxBlocks}}

\* a table as the caller extracted it beforehand
DoclingTable ==
    TableAsset(<<"t", "a", "b", "_", "1">>, 1, <<"T">>, <<"|", "d", "|">>,
               <<"|", "d", "|">>, 0, 1)

SuppliedTables == {<<>>, <<DoclingTable>>}

TableIds ==
    {<<"t", "a", "b", "_", "1">>, <<"t", "a", "b", "_", "2">>,
     <<"t", "a", "b", "_", "0">>, <<"t", "a", "b", "_", "9", "9", "9">>}

InitTables ==
    /\ text \in TableTexts
    /\ config = DefaultConfig
    /\ call = NoCall
    /\ pc = "idle"
    /\ start = 0
    /\ index = 0
    /\ chunks = <<>>
    /\ result = None
    /\ manifest = None
    /\ NoApplication

\* manifest = generate(..., markdown=text, ..., tables=tables)
Generate(tables) ==
    /\ pc = "idle"
    /\ manifest' = generate(text, tables)
    /\ call' = [op |-> "generate", tables |-> tables]
    /\ pc' = "generated"
    /\ UNCHANGED <<text, config, start, index, chunks, result, application>>

\* result = extract_table_by_id(text, table_id), the manifest at hand
ExtractTableById(table_id) ==
    /\ pc = "generated"
    /\ result' = extract_table_by_id(text, table_id)
    /\ call' = [op |-> "extract_table_by_id", table_id |-> table_id]
    /\ pc' = "returned"
    /\ UNCHANGED <<text, config, start, index, chunks, manifest, application>>

\* result = the tables and the sections that a second run of _parse_tables
\* and of _parse_sections gives, after generate and after whatever the
\* extractor has been asked since
ParseAgain ==
    /\ pc \in {"generated", "returned"}
    /\ result' = [tables |-> parse_tables(text), sections |-> parse_sections(text)]
    /\ call' = [op |-> "_parse_tables, _parse_sections"]
    /\ pc' = "parsed again"
    /\ UNCHANGED <<text, config, start, index, chunks, manifest, application>>

NextTables ==
    \/ \E tables \in SuppliedTables : Generate(tables)
    \/ \E table_id \in TableIds : ExtractTableById(table_id)
    \/ ParseAgain

SpecTables == InitTables /\ [][NextTables]_vars

\* generate has returned the tables it parsed from the markdown itself
TablesParsed == pc = "generated" /\ call.tables = <<>>

\* the offsets of text at which sub occurs
OffsetsOf(sub) ==
    {p \in 0..(Len(text) - Len(sub)) : SubSeq(text, p + 1, p + Len(sub)) = sub}

\* C12: _parse_tables returns the matched blocks in document order with ids
\* tab_1, tab_2, ..., tab_n, so the ids of one manifest are pairwise distinct
\* and the k-th table of the text has id tab_k.
C12_TableIds ==
    TablesParsed =>
        /\ \A k \in 1..Len(manifest.tables) :
              manifest.tables[k].id
                  = <<"t", "a", "b", "_",
                      <<"1", "2", "3", "4", "5", "6", "7", "8", "9">>[k]>>
        /\ \A j, k \in 1..Len(manifest.tables) :
              j # k => manifest.tables[j].id # manifest.tables[k].id
        /\ \A k \in 1..(Len(manifest.tables) - 1) :
              \E p \in OffsetsOf(manifest.tables[k].markdown),
                 q \in OffsetsOf(manifest.tables[k + 1].markdown) :
                  p + Len(manifest.tables[k].markdown) <= q

\* two tables parsed from one markdown
C12_Witness ==
    /\ TablesParsed
    /\ Len(manifest.tables) = 2
    /\ manifest.tables[2].id = <<"t", "a", "b", "_", "2">>

\* the number of lines of a parsed block after its header row and its
\* separator row
DataRows(table) == PyCount(PyStrip(table.markdown), "\n") - 1

\* C13: row_count counts the header row and every data row but not the
\* separator row: a header row, a separator row and k data rows give k + 1.
C13_RowCountWithHeader ==
    TablesParsed =>
        \A k \in 1..Len(manifest.tables) :
            manifest.tables[k].row_count = DataRows(manifest.tables[k]) + 1

\* a table of a header row, a separator row and two data rows, counted as 3
C13_Witness ==
    /\ TablesParsed
    /\ text = TableBlock(2)
    /\ Len(manifest.tables) = 1
    /\ manifest.tables[1].row_count = 3

\* C14: row_count is the number of data rows only: a header row, a separator
\* row and k data rows give k.
C14_RowCountDataOnly ==
    TablesParsed =>
        \A k \in 1..Len(manifest.tables) :
            manifest.tables[k].row_count = DataRows(manifest.tables[k])

\* C14 as the code has it: row_count is the number of lines of the block
\* less the one separator line, the header row being counted, so it is at
\* least 2 and never the number of data rows.
C14_RowCountAllButSeparator ==
    TablesParsed =>
        \A k \in 1..Len(manifest.tables) :
            /\ manifest.tables[k].row_count
                  = Len(PySplitLines(PyStrip(manifest.tables[k].markdown))) - 1
            /\ manifest.tables[k].row_count >= 2
            /\ manifest.tables[k].row_count # DataRows(manifest.tables[k])

\* a table with one data row, counted as 2
C14_Witness ==
    /\ TablesParsed
    /\ text = TableBlock(1)
    /\ Len(manifest.tables) = 1
    /\ manifest.tables[1].row_count = 2

\* C20: extract_table_by_id(m, t.id) returns t.markdown for every table t
\* of _parse_tables(m), and None for an id that _parse_tables(m) did not
\* assign.
C20_ExtractorAgrees ==
    (pc = "returned" /\ call.op = "extract_table_by_id")
        => LET tables == parse_tables(text)
               same == {k \in 1..Len(tables) : tables[k].id = call.table_id}
           IN /\ same = {} => result = None
              /\ \A k \in same : result = Some(tables[k].markdown)

\* the second table of a markdown, extracted by its id
C20_Witness ==
    /\ pc = "returned"
    /\ call.op = "extract_table_by_id"
    /\ call.table_id = <<"t", "a", "b", "_", "2">>
    /\ Len(manifest.tables) = 2
    /\ result = Some(manifest.tables[2].markdown)

\* an id that was not assigned gives None although the markdown has a table
C20_WitnessNone ==
    /\ pc = "returned"
    /\ call.op = "extract_table_by_id"
    /\ call.table_id = <<"t", "a", "b", "_", "9", "9", "9">>
    /\ parse_tables(text) # <<>>
    /\ result = None

\* ------------------------------------------------------------------------
\* generate, then extract_section_content, on markdown made of lines
\* ------------------------------------------------------------------------

\* the number of lines of a markdown
MaxLines == 4

PageMarker(digit) ==
    <<"<", "!", "-", "-", " ", "P", "a", "g", "e", " ", digit, " ", "-", "-", ">">>

\* headings of levels 1 to 3, a line of content, an empty line, a page
\* marker, two page markers on one line, a heading with a page marker after
\* it, and a "#" on its own
SectionLinePieces ==
    {<<"#", " ", "T">>, <<"#", "#", " ", "A">>, <<"#", "#", "#", " ", "c">>,
     <<"x">>, <<>>, PageMarker("2"),
     PageMarker("3") \o <<" ">> \o PageMarker("4"),
     <<"#", " ", "B", " ">> \o PageMarker("5"),
     <<"#">>}

\* `# Title`, `## A`, content, `## B`, content
NestingDocument ==
    PyJoin(<<"\n">>, <<<<"#", " ", "T", "i", "t", "l", "e">>, <<"#", "#", " ", "A">>,
                        <<"c", "o", "n", "t", "e", "n", "t">>, <<"#", "#", " ", "B">>,
                        <<"c", "o", "n", "t", "e", "n", "t">>>>)

\* a table and a heading under the same page marker, and both again under
\* two markers on one line
PagedDocuments ==
    {PageMarker("2") \o <<"\n">> \o TableBlock(1) \o <<"#", "#", " ", "A">>,
     PageMarker("3") \o <<" ">> \o PageMarker("4") \o <<"\n">> \o TableBlock(1)
        \o <<"#", "#", " ", "A">>}

SectionTexts ==
    {PyJoin(<<"\n">>, ls) : ls \in UNION {[1..n -> SectionLinePieces] : n \in 0..MaxLines}}
        \cup {NestingDocument} \cup PagedDocuments

InitSections ==
    /\ text \in SectionTexts
    /\ config = DefaultConfig
    /\ call = NoCall
    /\ pc = "idle"
    /\ start = 0
    /\ index = 0
    /\ chunks = <<>>
    /\ result = None
    /\ manifest = None
    /\ NoApplication

\* result = extract_section_content(text, section) for a section of the
\* manifest at hand
ExtractSectionContent(k) ==
    /\ pc = "generated"
    /\ k \in 1..Len(manifest.sections)
    /\ result' = extract_section_content(text, manifest.sections[k])
    /\ call' = [op |-> "extract_section_content", section |-> manifest.sections[k]]
    /\ pc' = "returned"
    /\ UNCHANGED <<text, config, start, index, chunks, manifest, application>>

\* a section that was not parsed from this markdown: it starts at line 2
\* and ends beyond the longest markdown
StaleSection ==
    SectionAsset(<<"s", "e", "c", "_", "o", "l", "d">>, <<"o", "l", "d">>, 2, 1,
                 2, MaxLines + 5, <<>>)

\* result = extract_section_content(text, StaleSection)
ExtractStaleSection ==
    /\ pc = "generated"
    /\ result' = extract_section_content(text, StaleSection)
    /\ call' = [op |-> "extract_section_content", section |-> StaleSection]
    /\ pc' = "returned"
    /\ UNCHANGED <<text, config, start, index, chunks, manifest, application>>

\* DocumentAssets.find_section(section_id_or_title): the first section whose
\* id or title is the search string, case-insensitively
find_section(sections, section_id_or_title) ==
    LET search == PyLower(section_id_or_title)
        found == {k \in 1..Len(sections) :
                     \/ PyLower(sections[k].id) = search
                     \/ PyLower(sections[k].title) = search}
    IN IF found = {} THEN None ELSE sections[MinOf(found)]

\* result = manifest.assets.find_section(s.id) for a section s of the
\* manifest at hand
FindSection(k) ==
    /\ pc = "generated"
    /\ k \in 1..Len(manifest.sections)
    /\ result' = find_section(manifest.sections, manifest.sections[k].id)
    /\ call' = [op |-> "find_section", section |-> manifest.sections[k]]
    /\ pc' = "returned"
    /\ UNCHANGED <<text, config, start, index, chunks, manifest, application>>

NextSections ==
    \/ Generate(<<>>)
    \/ \E k \in 1..MaxLines : ExtractSectionContent(k)
    \/ ExtractStaleSection
    \/ \E k \in 1..MaxLines : FindSection(k)

SpecSections == InitSections /\ [][NextSections]_vars

\* generate has returned the manifest of text
Generated == pc = "generated"

\* the offset in text at which the line numbered i (from 0) starts
LineOffset(i) == Len(Concat([k \in 1..i |-> PySplitLines(text)[k]])) + i

\* the offsets below p at which a page marker starts that ends at or before p
MarkersBefore(p) ==
    {q \in 0..(p - 1) : ReMatch(PageComment, text, q) # <<>>
                          /\ ReMatch(PageComment, text, q)[1] <= p}

\* the number of the last page marker before offset p, 1 when there is none
PageBefore(p) ==
    IF MarkersBefore(p) = {} THEN 1
    ELSE PageCommentNumber(text,
            [start |-> MaxOf(MarkersBefore(p)),
             end |-> ReMatch(PageComment, text, MaxOf(MarkersBefore(p)))[1]])

\* C15: the page of every parsed table and of every section is the number
\* of the last page marker before the table's start offset, respectively
\* before the heading's line, and 1 when no marker precedes it; a line that
\* contains a page marker is never emitted as a section.
C15_PageOfTablesAndSections ==
    Generated =>
        /\ \A k \in 1..Len(manifest.tables) :
              \E p \in OffsetsOf(manifest.tables[k].markdown) :
                  manifest.tables[k].page = PageBefore(p)
        /\ \A k \in 1..Len(manifest.sections) :
              /\ manifest.sections[k].page
                    = PageBefore(LineOffset(manifest.sections[k].start_line))
              /\ ReFindIter(PageComment,
                            PySplitLines(text)[manifest.sections[k].start_line + 1])
                    = <<>>

\* the sections of a manifest that have this title
Titled(title) ==
    {k \in 1..Len(manifest.sections) : manifest.sections[k].title = title}

\* C16: for `# Title`, `## A`, content, `## B`, content, the range of
\* "Title" ends where "A" begins: Title.end_line = A.start_line.
C16_TitleEndsAtA ==
    (Generated /\ text = NestingDocument) =>
        \A t \in Titled(<<"T", "i", "t", "l", "e">>), a \in Titled(<<"A">>) :
            manifest.sections[t].end_line = manifest.sections[a].start_line

\* C16 as the code has it: a deeper heading does not end a section, so
\* "Title" runs to the end of the document and contains "A" and "B", and it
\* is "A" that ends where "B" begins.
C16_TitleContainsAAndB ==
    (Generated /\ text = NestingDocument) =>
        /\ Len(manifest.sections) = 3
        /\ \A t \in Titled(<<"T", "i", "t", "l", "e">>), a \in Titled(<<"A">>),
              b \in Titled(<<"B">>) :
              /\ manifest.sections[t].start_line = 0
              /\ manifest.sections[t].end_line = Len(PySplitLines(text))
              /\ manifest.sections[a].end_line = manifest.sections[b].start_line
              /\ manifest.sections[b].end_line = manifest.sections[t].end_line
        /\ Titled(<<"T", "i", "t", "l", "e">>) = {1}
        /\ Titled(<<"A">>) = {2}
        /\ Titled(<<"B">>) = {3}

\* the manifest of `# Title`, `## A`, content, `## B`, content
C16_Witness ==
    /\ Generated
    /\ text = NestingDocument
    /\ manifest.sections[1].end_line = 5
    /\ manifest.sections[2].end_line = 3

\* the lines start_line .. end_line - 1 of a section
Range(section) == section.start_line..(section.end_line - 1)

\* C17: the ranges of two sections of one _parse_sections call are disjoint
\* or one contains the other; a section that starts inside another one's
\* range is strictly deeper and ends no later than it.
C17_RangesNest ==
    Generated =>
        \A j, k \in 1..Len(manifest.sections) :
            /\ \/ Range(manifest.sections[j]) \cap Range(manifest.sections[k]) = {}
               \/ Range(manifest.sections[j]) \subseteq Range(manifest.sections[k])
               \/ Range(manifest.sections[k]) \subseteq Range(manifest.sections[j])
            /\ (j # k /\ manifest.sections[k].start_line
                            \in Range(manifest.sections[j]))
                  => /\ manifest.sections[k].level > manifest.sections[j].level
                     /\ manifest.sections[k].end_line <= manifest.sections[j].end_line

\* two siblings side by side inside their parent
C17_Witness ==
    /\ Generated
    /\ Len(manifest.sections) = 3
    /\ manifest.sections[1].level = 1
    /\ manifest.sections[2].level = 2
    /\ manifest.sections[3].level = 2
    /\ manifest.sections[2].end_line = manifest.sections[3].start_line
    /\ manifest.sections[3].end_line = manifest.sections[1].end_line

\* the positions in the section list of the sections of level 1 or 2
Shallow == {k \in 1..Len(manifest.sections) : manifest.sections[k].level <= 2}

\* C18: toc is the list of the titles of the sections of level <= 2, in
\* document order, none of them omitted and no deeper section listed.
C18_Toc ==
    Generated =>
        /\ Len(manifest.toc) = Cardinality(Shallow)
        /\ \A k \in Shallow :
              manifest.toc[Cardinality({j \in Shallow : j <= k})]
                  = manifest.sections[k].title

\* a level-3 section between two listed ones
C18_Witness ==
    /\ Generated
    /\ Len(manifest.sections) = 3
    /\ manifest.sections[2].level = 3
    /\ manifest.toc = <<manifest.sections[1].title, manifest.sections[3].title>>

\* the text of a line that is an ATX heading of level 1, <<>> for another line
H1Text(line) ==
    IF Len(line) >= 3 /\ line[1] = "#" /\ line[2] \in {" ", "\t"}
    THEN PyStrip(PySliceFrom(line, 2))
    ELSE <<>>

\* C19: _detect_title returns the text of the first level-1 heading if there
\* is one; otherwise the first non-empty line that is not an HTML comment,
\* cut to 100 characters; otherwise the empty string.
C19_DetectTitle ==
    Generated =>
        LET lines == PySplitLines(text)
            h1 == {k \in 1..Len(lines) : H1Text(lines[k]) # <<>>}
            plain == {k \in 1..Len(lines) :
                         PyStrip(lines[k]) # <<>>
                           /\ ~PyStartsWith(PyStrip(lines[k]), <<"<", "!", "-", "-">>)}
        IN manifest.title =
              IF h1 # {} THEN H1Text(lines[MinOf(h1)])
              ELSE IF plain # {} THEN PySliceTo(PyStrip(lines[MinOf(plain)]), 100)
              ELSE <<>>

\* extract_section_content has returned
SectionExtracted == pc = "returned" /\ call.op = "extract_section_content"

\* the lines of text numbered from..(to - 1), counting from 0, each followed
\* by a newline
RECURSIVE LinesWithNewlines(_, _)
LinesWithNewlines(from, to) ==
    IF from >= to \/ from >= Len(PySplitLines(text)) THEN <<>>
    ELSE PySplitLines(text)[from + 1] \o <<"\n">> \o LinesWithNewlines(from + 1, to)

\* C21: extract_section_content returns the lines start_line <= i < end_line
\* joined by newlines, so the heading line comes first for a section parsed
\* from the same markdown, and the empty string when start_line is at or
\* beyond the number of lines.
C21_ExtractSectionContent ==
    SectionExtracted =>
        /\ call.section.start_line >= Len(PySplitLines(text)) => result = <<>>
        /\ call.section.start_line < Len(PySplitLines(text))
              => result \o <<"\n">>
                    = LinesWithNewlines(call.section.start_line,
                                        call.section.end_line)
        /\ call.section \in {manifest.sections[k] : k \in 1..Len(manifest.sections)}
              => PyStartsWith(result,
                              PySplitLines(text)[call.section.start_line + 1])

\* a parsed section of two lines that ends before the end of the markdown
C21_Witness ==
    /\ SectionExtracted
    /\ call.section # StaleSection
    /\ call.section.end_line = call.section.start_line + 2
    /\ call.section.end_line < Len(PySplitLines(text))
    /\ PyCount(result, "\n") = 1

\* a section that starts beyond the last line gives the empty string
C21_WitnessOutOfRange ==
    /\ SectionExtracted
    /\ call.section = StaleSection
    /\ text # <<>>
    /\ Len(PySplitLines(text)) <= 2
    /\ result = <<>>

IngestPaths == {"missing", "notes.txt", "paper.pdf"}

\* self.knowledge_graph: None, or a graph whose is_available is False or True
KnowledgeGraphs == {"none", "unavailable", "available"}

\* what pdf_extractor.extract_text returns
IngestMarkdowns ==
    {<<"#", " ", "T", "\n", "x">>,
     <<"#", "#", " ", "A", "\n">> \o TableBlock(1)}

IngestFailure(error) ==
    [success |-> FALSE, error |-> error, title |-> <<>>, manifest |-> None,
     tables_found |-> 0, sections_found |-> 0]

IngestSuccess(m) ==
    [success |-> TRUE, error |-> None, title |-> m.title, manifest |-> m,
     tables_found |-> Len(m.tables), sections_found |-> Len(m.sections)]

\* the manifest of generate with its lightrag_entities:
\* `lightrag_entities=lightrag_entities or []`
ManifestWithEntities(m, lightrag_entities) ==
    [title |-> m.title, toc |-> m.toc, tables |-> m.tables,
     sections |-> m.sections, lightrag_entities |-> lightrag_entities]

InitIngest ==
    /\ text = <<>>
    /\ config = DefaultConfig
    /\ call = NoCall
    /\ pc = "idle"
    /\ start = 0
    /\ index = 0
    /\ chunks = <<>>
    /\ result = None
    /\ manifest = None
    /\ \E kg \in KnowledgeGraphs :
          ingest = [knowledge_graph |-> kg, tables |-> <<>>, entities |-> <<>>,
                    raised |-> {}, warnings |-> <<>>,
                    repository |-> [markdown |-> None, manifest |-> None]]
    /\ service = None
    /\ jobs = None

\* what an ingest step leaves alone
IngestFrame == UNCHANGED <<config, start, index, chunks, manifest, service, jobs>>

\* the outer `except Exception as e`: the step's exception ends the call
IngestAborted(step) ==
    /\ ingest' = [ingest EXCEPT !.raised = @ \cup {step}]
    /\ result' = IngestFailure(step)
    /\ pc' = "returned"

\* _ingest_single(file_path) up to the try block
IngestSingle(path) ==
    /\ pc = "idle"
    /\ call' = [op |-> "_ingest_single", path |-> path]
    /\ IF path = "missing"
       THEN result' = IngestFailure("File not found") /\ pc' = "returned"
       ELSE IF path # "paper.pdf"
       THEN result' = IngestFailure("Not a PDF file") /\ pc' = "returned"
       ELSE result' = result /\ pc' = "extract_text"
    /\ UNCHANGED <<text, ingest>>
    /\ IngestFrame

\* markdown = self.pdf_extractor.extract_text(path)
ExtractText ==
    /\ pc = "extract_text"
    /\ \/ \E markdown \in IngestMarkdowns :
             /\ text' = markdown
             /\ pc' = "save_markdown"
             /\ UNCHANGED <<ingest, result>>
       \/ IngestAborted("extract_text") /\ UNCHANGED text
    /\ UNCHANGED call
    /\ IngestFrame

\* markdown_path = self.repository.save_markdown(doc_id.value, markdown)
SaveMarkdown ==
    /\ pc = "save_markdown"
    /\ \/ /\ ingest' = [ingest EXCEPT !.repository.markdown = Some(text)]
          /\ pc' = "extract_images"
          /\ UNCHANGED result
       \/ IngestAborted("save_markdown")
    /\ UNCHANGED <<text, call>>
    /\ IngestFrame

\* figures = await self._extract_and_save_images(doc_id.value, path)
ExtractImages ==
    /\ pc = "extract_images"
    /\ \/ pc' = "extract_tables" /\ UNCHANGED <<ingest, result>>
       \/ IngestAborted("extract_images")
    /\ UNCHANGED <<text, call>>
    /\ IngestFrame

\* tables = await self._extract_tables(path): the extractor's tables, or []
\* when it has none or its extract_tables raised
ExtractTables ==
    /\ pc = "extract_tables"
    /\ \/ \E tables \in SuppliedTables : ingest' = [ingest EXCEPT !.tables = tables]
       \/ ingest' = [ingest EXCEPT !.raised = @ \cup {"extract_tables"},
                                   !.warnings = Append(@, "Table extraction failed")]
    /\ pc' = "get_page_count"
    /\ UNCHANGED <<text, call, result>>
    /\ IngestFrame

\* page_count = self.pdf_extractor.get_page_count(path), then
\* `if self.knowledge_graph and self.knowledge_graph.is_available`
GetPageCount ==
    /\ pc = "get_page_count"
    /\ \/ /\ pc' = IF ingest.knowledge_graph = "available" THEN "insert"
                   ELSE "generate"
          /\ UNCHANGED <<ingest, result>>
       \/ IngestAborted("get_page_count")
    /\ UNCHANGED <<text, call>>
    /\ IngestFrame

\* a variant without the inner try: the exception reaches the outer handler
KnowledgeGraphFailed_Aborts(step) ==
    /\ ingest' = [ingest EXCEPT !.raised = @ \cup {step}]
    /\ result' = IngestFailure(step)
    /\ pc' = "returned"

\* the inner `except Exception as e: logging.warning(...)`: entities is
\* still [] and the call goes on
KnowledgeGraphFailed(step) ==
    /\ ingest' = [ingest EXCEPT !.raised = @ \cup {step},
                                !.warnings = Append(@, "LightRAG indexing failed")]
    /\ result' = result
    /\ pc' = "generate"

\* await self.knowledge_graph.insert(doc_id.value, markdown)
Insert ==
    /\ pc = "insert"
    /\ \/ pc' = "extract_entities" /\ UNCHANGED <<ingest, result>>
       \/ KnowledgeGraphFailed("insert")
    /\ UNCHANGED <<text, call>>
    /\ IngestFrame

\* entities = await self.knowledge_graph.extract_entities(markdown)
ExtractEntities ==
    /\ pc = "extract_entities"
    /\ \/ /\ \E entities \in {<<>>, <<"Entity1", "Entity2">>} :
                ingest' = [ingest EXCEPT !.entities = entities]
          /\ pc' = "generate"
          /\ UNCHANGED result
       \/ KnowledgeGraphFailed("extract_entities")
    /\ UNCHANGED <<text, call>>
    /\ IngestFrame

\* manifest = self.manifest_generator.generate(..., tables=tables,
\* lightrag_entities=entities)
GenerateManifest ==
    /\ pc = "generate"
    /\ manifest' = ManifestWithEntities(generate(text, ingest.tables),
                                        ingest.entities)
    /\ pc' = "save_manifest"
    /\ UNCHANGED <<text, config, call, start, index, chunks, result, application>>

\* self.repository.save_manifest(manifest), then the IngestResult
SaveManifest ==
    /\ pc = "save_manifest"
    /\ \/ /\ ingest' = [ingest EXCEPT !.repository.manifest = Some(manifest)]
          /\ result' = IngestSuccess(manifest)
          /\ pc' = "returned"
       \/ IngestAborted("save_manifest")
    /\ UNCHANGED <<text, call>>
    /\ IngestFrame

NextIngest ==
    \/ \E path \in IngestPaths : IngestSingle(path)
    \/ ExtractText
    \/ SaveMarkdown
    \/ ExtractImages
    \/ ExtractTables
    \/ GetPageCount
    \/ Insert
    \/ ExtractEntities
    \/ GenerateManifest
    \/ SaveManifest

SpecIngest == InitIngest /\ [][NextIngest]_vars

\* insert or extract_entities has raised
KnowledgeGraphRaised == ingest.raised \cap {"insert", "extract_entities"} # {}

\* C23: a failure of insert or of extract_entities does not abort the
\* ingestion: the manifest is generated with lightrag_entities = [], saved
\* to the repository, and the IngestResult has success = True; the call can
\* still fail, but only at save_manifest.
C23_KnowledgeGraphFailureTolerated ==
    KnowledgeGraphRaised =>
        /\ pc \in {"generate", "save_manifest", "returned"}
        /\ pc = "generate" => ingest.entities = <<>>
        /\ pc = "save_manifest" => manifest.lightrag_entities = <<>>
        /\ pc = "returned" =>
              \/ /\ result.success
                 /\ result.manifest = manifest
                 /\ result.manifest.lightrag_entities = <<>>
                 /\ ingest.repository.manifest = Some(manifest)
              \/ /\ ~result.success
                 /\ result.error = "save_manifest"
                 /\ "save_manifest" \in ingest.raised

\* an ingestion that succeeded although extract_entities raised
C23_Witness ==
    /\ pc = "returned"
    /\ "extract_entities" \in ingest.raised
    /\ result.success
    /\ result.manifest.lightrag_entities = <<>>
    /\ ingest.repository.manifest = Some(manifest)

\* ------------------------------------------------------------------------
\* application/table_service.py and domain/table_entities.py
\* ------------------------------------------------------------------------

\* the rows a table can reach
MaxTableRows == 2

\* JSON values of a cell
Str(v) == [t |-> "str", v |-> v]

Num(v) == [t |-> "number", v |-> v]

Null == [t |-> "null"]

\* row.get(key)
RowGet(row, key) == IF key \in DOMAIN row THEN row[key] ELSE Null

\* del d[key]
DelItem(d, key) == [k \in DOMAIN d \ {key} |-> d[k]]

ColumnDef(name, type, required, enum_values) ==
    [name |-> name, type |-> type, required |-> required,
     enum_values |-> enum_values]

\* the keys of a set in a fixed order
RECURSIVE KeysInOrder(_)
KeysInOrder(S) ==
    IF S = {} THEN <<>>
    ELSE LET k == CHOOSE x \in S : TRUE IN <<k>> \o KeysInOrder(S \ {k})

\* the errors of the loop over the column definitions in validate_row
RECURSIVE ColumnErrors(_, _, _)
ColumnErrors(columns, row, k) ==
    IF k > Len(columns) THEN <<>>
    ELSE (IF columns[k].required /\ RowGet(row, columns[k].name) = Null
          THEN <<<<"Missing required column", columns[k].name>>>>
          ELSE IF RowGet(row, columns[k].name) = Null THEN <<>>
          ELSE IF columns[k].type = "number"
                    /\ RowGet(row, columns[k].name).t # "number"
          THEN <<<<"must be a number", columns[k].name>>>>
          ELSE IF columns[k].type = "enum" /\ columns[k].enum_values # <<>>
                    /\ ~\E j \in 1..Len(columns[k].enum_values) :
                           RowGet(row, columns[k].name)
                              = Str(columns[k].enum_values[j])
          THEN <<<<"Invalid value for enum column", columns[k].name>>>>
          ELSE <<>>)
         \o ColumnErrors(columns, row, k + 1)

\* TableContext.validate_row: the unknown keys of the row, then the errors
\* of every column definition
validate_row(columns, row) ==
    LET col_names == {columns[k].name : k \in 1..Len(columns)}
        unknown == KeysInOrder(DOMAIN row \ col_names)
    IN [k \in 1..Len(unknown) |-> <<"Unknown column", unknown[k]>>]
         \o ColumnErrors(columns, row, 1)

TableContext(id, intent, title, columns, rows, source_description, created_at) ==
    [id |-> id, intent |-> intent, title |-> title, columns |-> columns,
     rows |-> rows, source_description |-> source_description,
     created_at |-> created_at]

\* the state that _save_table writes to <id>.json: created_at as a string
SavedState(context) ==
    [id |-> context.id, intent |-> context.intent, title |-> context.title,
     columns |-> [k \in 1..Len(context.columns) |->
                     [name |-> context.columns[k].name,
                      type |-> context.columns[k].type,
                      required |-> context.columns[k].required,
                      enum_values |-> context.columns[k].enum_values]],
     rows |-> context.rows,
     source_description |-> context.source_description,
     created_at |-> [datetime |-> FALSE, value |-> context.created_at.value]]

\* _save_table: <id>.json and <id>.md are written
save_table(svc, context) ==
    [svc EXCEPT !.json = SetItem(@, context.id, SavedState(context)),
                !.md = @ \cup {context.id}]

\* _load_existing_tables: a TableContext for every *.json, under the id
\* that the file holds
load_existing_tables(json) ==
    [id \in {json[f].id : f \in DOMAIN json} |->
        LET data == json[CHOOSE f \in DOMAIN json : json[f].id = id]
        IN TableContext(data.id, data.intent, data.title,
                        [k \in 1..Len(data.columns) |->
                            ColumnDef(data.columns[k].name, data.columns[k].type,
                                      data.columns[k].required,
                                      data.columns[k].enum_values)],
                        data.rows, data.source_description, data.created_at)]

\* raise ValueError(message)
ValueError(message) == [raised |-> "ValueError", message |-> message]

\* a variant that takes rows only up to the first invalid one
RECURSIVE AddedRows_UntilInvalid(_, _, _)
AddedRows_UntilInvalid(columns, rows, i) ==
    IF i >= Len(rows) \/ validate_row(columns, rows[i + 1]) # <<>> THEN <<>>
    ELSE <<rows[i + 1]>> \o AddedRows_UntilInvalid(columns, rows, i + 1)

\* the rows that the loop of add_rows appends from rows[i] on
RECURSIVE AddedRows(_, _, _)
AddedRows(columns, rows, i) ==
    IF i >= Len(rows) THEN <<>>
    ELSE (IF validate_row(columns, rows[i + 1]) # <<>> THEN <<>>
          ELSE <<rows[i + 1]>>)
         \o AddedRows(columns, rows, i + 1)

\* the errors that the loop of add_rows collects from rows[i] on
RECURSIVE RowErrors(_, _, _)
RowErrors(columns, rows, i) ==
    IF i >= Len(rows) THEN <<>>
    ELSE (IF validate_row(columns, rows[i + 1]) # <<>>
          THEN <<[row_index |-> i, errors |-> validate_row(columns, rows[i + 1])]>>
          ELSE <<>>)
         \o RowErrors(columns, rows, i + 1)

\* a variant that saves only when no row was rejected
SavedAfterAdd_NoErrors(added_count, errors) == errors = <<>>

\* `if added_count > 0: self._save_table(context)`
SavedAfterAdd(added_count, errors) == added_count > 0

\* the service after add_rows has appended `added` to the table
AfterAddRows(svc, table_id, added, errors) ==
    LET context == [svc.tables[table_id] EXCEPT !.rows = @ \o added]
        cached == [svc EXCEPT !.tables[table_id] = context]
    IN IF SavedAfterAdd(Len(added), errors) THEN save_table(cached, context)
       ELSE cached

\* what add_rows returns
AddRowsResult(context, added, errors) ==
    [success |-> Len(added) > 0, added |-> Len(added),
     total_rows |-> Len(context.rows) + Len(added),
     errors |-> IF errors # <<>> THEN errors ELSE None]

\* ---- TableService, one call per step ----

\* uuid4().hex[:8] of create_table: two ids, so that an id can also repeat
NewTableIds == {"tbl_1", "tbl_2"}

DrugColumns ==
    <<ColumnDef("Drug", "text", TRUE, <<>>), ColumnDef("Dose", "number", FALSE, <<>>)>>

RouteColumns == <<ColumnDef("Route", "enum", TRUE, <<"IV", "IM">>)>>

TableColumns == {DrugColumns, RouteColumns}

DrugRow == [Drug |-> Str("A"), Dose |-> Num("0.2")]

DrugOnlyRow == [Drug |-> Str("B")]

DoseTextRow == [Dose |-> Str("high")]

RouteRow == [Route |-> Str("IV")]

BadRouteRow == [Route |-> Str("PO")]

TableRows == {DrugRow, DrugOnlyRow, DoseTextRow, RouteRow, BadRouteRow}

\* the rows argument of add_rows: nothing, valid rows, rejected rows, and
\* both in either order
NewRows ==
    {<<>>, <<DrugRow>>, <<DrugRow, DrugOnlyRow>>, <<DoseTextRow>>,
     <<DoseTextRow, DrugOnlyRow>>, <<DrugRow, BadRouteRow, DrugOnlyRow>>,
     <<RouteRow>>, <<BadRouteRow, RouteRow>>}

\* index arguments: negative, inside and beyond the rows
RowIndexes == (0 - 1)..MaxTableRows

CellColumns == {"Drug", "Notes"}

CellValues == {Str("C")}

InitService ==
    /\ text = <<>>
    /\ config = DefaultConfig
    /\ call = NoCall
    /\ pc = "idle"
    /\ start = 0
    /\ index = 0
    /\ chunks = <<>>
    /\ result = None
    /\ manifest = None
    /\ ingest = None
    /\ service = [tables |-> EmptyDict, json |-> EmptyDict, md |-> {}]
    /\ jobs = None

\* a TableService call runs from its first line to its return in one step;
\* what it leaves alone
ServiceFrame ==
    /\ pc = "idle"
    /\ pc' = "returned"
    /\ UNCHANGED <<text, config, start, index, chunks, manifest, ingest, jobs>>

\* the caller has the result and is ready for its next call
ServiceReturned ==
    /\ pc = "returned"
    /\ pc' = "idle"
    /\ call' = NoCall
    /\ result' = None
    /\ UNCHANGED <<text, config, start, index, chunks, manifest, application>>

\* TableService(): a new service over the same storage directory
NewTableService ==
    /\ ServiceFrame
    /\ service' = [service EXCEPT !.tables = load_existing_tables(service.json)]
    /\ call' = [op |-> "TableService"]
    /\ result' = None

\* create_table(intent, title, columns)
CreateTable(table_id, columns) ==
    /\ ServiceFrame
    /\ service' =
          LET context == TableContext(table_id, "comparison", "Test", columns, <<>>,
                                      "", [datetime |-> TRUE, value |-> "now"])
          IN save_table([service EXCEPT !.tables = SetItem(@, table_id, context)],
                        context)
    /\ call' = [op |-> "create_table", columns |-> columns]
    /\ result' = table_id

\* add_rows(table_id, rows)
AddRows(table_id, rows) ==
    /\ ServiceFrame
    /\ call' = [op |-> "add_rows", table_id |-> table_id, rows |-> rows]
    /\ IF table_id \notin DOMAIN service.tables
       THEN /\ result' = ValueError("Table not found")
            /\ UNCHANGED service
       ELSE /\ Len(service.tables[table_id].rows)
                  + Len(AddedRows(service.tables[table_id].columns, rows, 0))
                  <= MaxTableRows
            /\ service' = AfterAddRows(service, table_id,
                                       AddedRows(service.tables[table_id].columns, rows, 0),
                                       RowErrors(service.tables[table_id].columns, rows, 0))
            /\ result' = AddRowsResult(service.tables[table_id],
                                       AddedRows(service.tables[table_id].columns, rows, 0),
                                       RowErrors(service.tables[table_id].columns, rows, 0))

\* update_row(table_id, index, row)
UpdateRow(table_id, i, row) ==
    /\ ServiceFrame
    /\ call' = [op |-> "update_row", table_id |-> table_id, index |-> i, row |-> row]
    /\ IF table_id \notin DOMAIN service.tables
       THEN result' = ValueError("Table not found") /\ UNCHANGED service
       ELSE IF i < 0 \/ i >= Len(service.tables[table_id].rows)
       THEN result' = ValueError("Invalid row index") /\ UNCHANGED service
       ELSE IF validate_row(service.tables[table_id].columns, row) # <<>>
       THEN /\ result' = [success |-> FALSE,
                          errors |-> validate_row(service.tables[table_id].columns, row)]
            /\ UNCHANGED service
       ELSE /\ service' =
                  LET context == [service.tables[table_id] EXCEPT !.rows[i + 1] = row]
                  IN save_table([service EXCEPT !.tables[table_id] = context], context)
            /\ result' = [success |-> TRUE]

\* delete_row(table_id, index)
DeleteRow(table_id, i) ==
    /\ ServiceFrame
    /\ call' = [op |-> "delete_row", table_id |-> table_id, index |-> i]
    /\ IF table_id \notin DOMAIN service.tables
       THEN result' = ValueError("Table not found") /\ UNCHANGED service
       ELSE IF i < 0 \/ i >= Len(service.tables[table_id].rows)
       THEN result' = ValueError("Invalid row index") /\ UNCHANGED service
       ELSE /\ service' =
                  LET context == [service.tables[table_id] EXCEPT
                                     !.rows = PySliceTo(@, i) \o PySliceFrom(@, i + 1)]
                  IN save_table([service EXCEPT !.tables[table_id] = context], context)
            /\ result' = [success |-> TRUE,
                          total_rows |-> Len(service.tables[table_id].rows) - 1]

\* update_cell(table_id, row_index, column_name, value)
UpdateCell(table_id, row_index, column_name, value) ==
    /\ ServiceFrame
    /\ call' = [op |-> "update_cell", table_id |-> table_id, index |-> row_index,
                column |-> column_name, value |-> value]
    /\ IF table_id \notin DOMAIN service.tables
       THEN result' = ValueError("Table not found") /\ UNCHANGED service
       ELSE IF row_index < 0 \/ row_index >= Len(service.tables[table_id].rows)
       THEN result' = ValueError("Invalid row index") /\ UNCHANGED service
       ELSE IF column_name \notin {service.tables[table_id].columns[k].name :
                                     k \in 1..Len(service.tables[table_id].columns)}
       THEN result' = ValueError("Unknown column") /\ UNCHANGED service
       ELSE /\ service' =
                  LET context == [service.tables[table_id] EXCEPT
                                     !.rows[row_index + 1] = SetItem(@, column_name, value)]
                  IN save_table([service EXCEPT !.tables[table_id] = context], context)
            /\ result' = [success |-> TRUE,
                          old_value |-> RowGet(service.tables[table_id].rows[row_index + 1],
                                               column_name),
                          new_value |-> value]

\* delete_table(table_id): the cache entry and the table's files
DeleteTable(table_id) ==
    /\ ServiceFrame
    /\ call' = [op |-> "delete_table", table_id |-> table_id]
    /\ IF table_id \in DOMAIN service.tables
       THEN /\ service' = [service EXCEPT !.tables = DelItem(@, table_id),
                                          !.json = DelItem(@, table_id),
                                          !.md = @ \ {table_id}]
            /\ result' = TRUE
       ELSE result' = FALSE /\ UNCHANGED service

NextService ==
    \/ NewTableService
    \/ \E table_id \in NewTableIds, columns \in TableColumns :
          CreateTable(table_id, columns)
    \/ \E table_id \in NewTableIds, rows \in NewRows : AddRows(table_id, rows)
    \/ \E table_id \in NewTableIds, i \in RowIndexes, row \in TableRows :
          UpdateRow(table_id, i, row)
    \/ \E table_id \in NewTableIds, i \in RowIndexes : DeleteRow(table_id, i)
    \/ \E table_id \in NewTableIds, i \in RowIndexes, column_name \in CellColumns,
          value \in CellValues : UpdateCell(table_id, i, column_name, value)
    \/ \E table_id \in NewTableIds : DeleteTable(table_id)
    \/ ServiceReturned

SpecService == InitService /\ [][NextService]_vars

\* C24: the cache and the JSON files stay synchronized: after any sequence
\* of calls, failed and rejecting ones included, a newly constructed
\* TableService holds the same table ids as the cache, each with the same
\* columns and the same rows in the same order.
C24_CacheMatchesDisk ==
    /\ DOMAIN load_existing_tables(service.json) = DOMAIN service.tables
    /\ \A id \in DOMAIN service.tables :
          /\ load_existing_tables(service.json)[id].columns
                = service.tables[id].columns
          /\ load_existing_tables(service.json)[id].rows = service.tables[id].rows

\* two tables in the cache after an add_rows that took one row and rejected
\* another
C24_Witness ==
    /\ pc = "returned"
    /\ call.op = "add_rows"
    /\ "added" \in DOMAIN result
    /\ result.added = 1
    /\ Len(call.rows) = 2
    /\ Cardinality(DOMAIN service.tables) = 2
    /\ \A id \in DOMAIN service.tables : service.tables[id].rows # <<>>

\* the positions of the rows that validate_row accepts for these columns
Accepted(columns, rows) ==
    {i \in 1..Len(rows) : validate_row(columns, rows[i]) = <<>>}

\* C25: add_rows appends, after the existing rows and in input order, the
\* input rows for which validate_row reports no error; every other row is
\* left out and reported with its input index; added is the number
\* appended, total_rows the new row count and success = (added > 0). For an
\* unknown table_id it raises ValueError and changes no table.
C25_AddRows ==
    [][(pc = "idle" /\ pc' = "returned" /\ call'.op = "add_rows") =>
          IF call'.table_id \notin DOMAIN service.tables
          THEN /\ result' = ValueError("Table not found")
               /\ service' = service
          ELSE LET id == call'.table_id
                   rows == call'.rows
                   old == service.tables[id].rows
                   new == service'.tables[id].rows
                   ok == Accepted(service.tables[id].columns, rows)
               IN /\ Len(new) = Len(old) + Cardinality(ok)
                  /\ SubSeq(new, 1, Len(old)) = old
                  /\ \A i \in ok :
                        new[Len(old) + Cardinality({j \in ok : j <= i})] = rows[i]
                  /\ result'.added = Cardinality(ok)
                  /\ result'.total_rows = Len(new)
                  /\ result'.success = (Cardinality(ok) > 0)
                  /\ IF ok = 1..Len(rows) THEN result'.errors = None
                     ELSE {result'.errors[k].row_index :
                              k \in 1..Len(result'.errors)}
                            = {i - 1 : i \in (1..Len(rows)) \ ok}
                  /\ \A other \in DOMAIN service.tables \ {id} :
                        service'.tables[other] = service.tables[other]
                  /\ DOMAIN service'.tables = DOMAIN service.tables
      ]_vars

\* two rows appended around a rejected one
C25_Witness ==
    /\ pc = "returned"
    /\ call.op = "add_rows"
    /\ Len(call.rows) = 3
    /\ "added" \in DOMAIN result
    /\ result.added = 2
    /\ result.total_rows = 2
    /\ Len(result.errors) = 1
    /\ result.errors[1].row_index = 1

\* ------------------------------------------------------------------------
\* PageAwareChunker: the offsets of the chunks of an oversized page

\* the number of whitespace characters str.strip() removes from the front
LeadingWhitespace(s) ==
    LET keep == {k \in 1..Len(s) : s[k] \notin Whitespace}
    IN IF keep = {} THEN Len(s) ELSE MinOf(keep) - 1

\* chunk_index when the page loop reaches marker i
RECURSIVE ChunkIndexAt(_, _, _, _)
ChunkIndexAt(text_, markers, i, config_) ==
    IF i <= 1 THEN 0
    ELSE ChunkIndexAt(text_, markers, i - 1, config_)
            + Len(PageChunks(text_, markers, i - 1, 0, config_).chunks)

\* the pages PageAwareChunker hands to SemanticChunker: marker i, where the
\* page starts and ends, the untrimmed and the trimmed page text
OversizedPages(text_, config_) ==
    LET markers == ReFindIter(PAGE_MARKER, text_)
    IN {p \in {[i |-> i,
                start |-> markers[i].end,
                raw |-> PySlice(text_, markers[i].end,
                                IF i + 1 <= Len(markers) THEN markers[i + 1].start
                                ELSE Len(text_)),
                chunk_index |-> ChunkIndexAt(text_, markers, i, config_)] :
                   i \in 1..Len(markers)} :
          Len(PyStrip(p.raw)) > config_.chunk_size}

\* C26: every chunk PageAwareChunker produces from an oversized page has
\* start_char and end_char equal to SemanticChunker's offsets within the
\* trimmed page text shifted by the offset at which the trimmed page text
\* begins in the full text, also when whitespace follows the page marker.
C26_SubChunkOffsets ==
    (pc = "returned" /\ call.op = "PageAwareChunker")
        => \A p \in OversizedPages(text, config) :
              \A k \in 1..Len(SemanticRun(PyStrip(p.raw), config).chunks) :
                 LET sc == SemanticRun(PyStrip(p.raw), config).chunks[k]
                     begins == p.start + LeadingWhitespace(p.raw)
                 IN /\ chunks[p.chunk_index + k].start_char = sc.start_char + begins
                    /\ chunks[p.chunk_index + k].end_char = sc.end_char + begins

\* the same with no whitespace between the marker and the page text
C26_NoLeadingWhitespace ==
    (pc = "returned" /\ call.op = "PageAwareChunker")
        => \A p \in OversizedPages(text, config) :
              LeadingWhitespace(p.raw) = 0
                 => \A k \in 1..Len(SemanticRun(PyStrip(p.raw), config).chunks) :
                       LET sc == SemanticRun(PyStrip(p.raw), config).chunks[k]
                       IN /\ chunks[p.chunk_index + k].start_char
                                = sc.start_char + p.start
                          /\ chunks[p.chunk_index + k].end_char
                                = sc.end_char + p.start

\* ------------------------------------------------------------------------
\* BasicChunker with respect_sentences: where an interior window is cut

WindowFiller == 8

MaxTail == 5

SentenceAlphabet == {"a", ".", "\n", "U+FF1F"}

\* the empty text, and texts of WindowFiller letters followed by up to
\* MaxTail characters, so that the last fifth of the first window is drawn
\* from the alphabet
SentenceTexts ==
    {<<>>} \cup {[k \in 1..WindowFiller |-> "a"] \o tail :
                    tail \in UNION {[1..n -> SentenceAlphabet] : n \in 0..MaxTail}}

SentenceConfigs ==
    {ChunkConfig(cs, ov, 1, TRUE) :
        cs \in (WindowFiller + 2)..(WindowFiller + 3), ov \in {0, 2}}

InitSentence ==
    /\ text \in SentenceTexts
    /\ config \in SentenceConfigs
    /\ call = NoCall
    /\ pc = "idle"
    /\ start = 0
    /\ index = 0
    /\ chunks = <<>>
    /\ result = None
    /\ manifest = None
    /\ NoApplication

SpecSentence == InitSentence /\ [][NextBasic]_vars

\* the lengths at which a window may be cut: right after a sentence
\* terminator that lies in the last 20% of the window
AfterTerminators(window) ==
    {k \in (Int08(Len(window)) + 1)..Len(window) :
        \E e \in 1..Len(SentenceEndings) : window[k] = SentenceEndings[e]}

\* right after a "\n\n" that lies in the last 20% of the window
AfterBlankLines(window) ==
    {k \in (Int08(Len(window)) + 2)..Len(window) :
        window[k - 1] = "\n" /\ window[k] = "\n"}

\* the length the window is cut to when one of these lengths exists
CutTo(window, cuts) == IF cuts = {} THEN Len(window) ELSE MaxOf(cuts)

\* an iteration over an interior window of a call with respect_sentences
InteriorWindow ==
    /\ pc = "loop"
    /\ config.respect_sentences
    /\ start >= 0
    /\ start + config.chunk_size < Len(text)

\* C28: for an interior window of BasicChunker with respect_sentences the
\* chunk ends immediately after the last occurrence, within the last 20% of
\* the window, of a sentence terminator or of "\n\n"; if there is neither,
\* the full window is emitted; the chunk is never extended beyond the
\* window nor shortened below 80% of it.
C28_EndsAtSentenceOrBlankLine ==
    [][InteriorWindow =>
          LET window == PySlice(text, start, start + config.chunk_size)
              cut == CutTo(window, AfterTerminators(window)
                                      \cup AfterBlankLines(window))
          IN /\ Len(chunks') = Len(chunks) + 1
             /\ chunks'[Len(chunks')].text = PySliceTo(window, cut)
             /\ Len(chunks'[Len(chunks')].text) <= Len(window)
             /\ 5 * Len(chunks'[Len(chunks')].text) >= 4 * Len(window)
      ]_vars

\* the same for the sentence terminators alone
C28_EndsAtSentence ==
    [][InteriorWindow =>
          LET window == PySlice(text, start, start + config.chunk_size)
              cut == CutTo(window, AfterTerminators(window))
          IN /\ Len(chunks') = Len(chunks) + 1
             /\ chunks'[Len(chunks')].text = PySliceTo(window, cut)
             /\ Len(chunks'[Len(chunks')].text) <= Len(window)
             /\ 5 * Len(chunks'[Len(chunks')].text) >= 4 * Len(window)
      ]_vars

\* ------------------------------------------------------------------------
\* _parse_sections: where a section ends

\* the number of "#" characters a line starts with
Hashes(line) ==
    LET other == {k \in 1..Len(line) : line[k] # "#"}
    IN IF other = {} THEN Len(line) ELSE MinOf(other) - 1

\* the line is an ATX heading of level n: n "#" characters, 1 <= n <= 6,
\* and whitespace after them
AtxHeading(line, n) ==
    /\ n \in 1..6
    /\ Hashes(line) = n
    /\ Len(line) > n
    /\ line[n + 1] \in Whitespace

\* the lines after line i (from 0) that are headings no deeper than level
HeadingsAfter(lines, i, level) ==
    {j \in (i + 1)..(Len(lines) - 1) :
        \E n \in 1..level : AtxHeading(lines[j + 1], n)}

\* C27: for every section s of _parse_sections, s.end_line is the smallest
\* line index j > s.start_line such that line j is an ATX heading of level
\* <= s.level, or the number of lines when no such heading follows; hence
\* s.start_line < s.end_line <= number of lines, and a deeper heading never
\* ends the section.
C27_EndLine ==
    Generated =>
        \A k \in 1..Len(manifest.sections) :
            LET s == manifest.sections[k]
                lines == PySplitLines(text)
                after == HeadingsAfter(lines, s.start_line, s.level)
            IN /\ s.end_line = IF after = {} THEN Len(lines) ELSE MinOf(after)
               /\ s.start_line < s.end_line
               /\ s.end_line <= Len(lines)
               /\ s.end_line < Len(lines)
                     => Hashes(lines[s.end_line + 1]) <= s.level

\* a level-2 section that passes over a level-3 heading and is ended by a
\* level-1 heading, and a last section that runs to the end of the text
C27_Witness ==
    /\ Generated
    /\ Len(PySplitLines(text)) = 4
    /\ Len(manifest.sections) = 3
    /\ manifest.sections[1].level = 2
    /\ manifest.sections[1].start_line = 0
    /\ manifest.sections[2].level = 3
    /\ manifest.sections[1].end_line = 3
    /\ manifest.sections[3].level = 1
    /\ manifest.sections[3].end_line = 4

\* a section ended by a heading line that carries a page marker and so
\* starts no section itself
C27_WitnessMarkerLine ==
    /\ Generated
    /\ Len(PySplitLines(text)) = 3
    /\ Len(manifest.sections) = 1
    /\ manifest.sections[1].end_line = 2

\* ------------------------------------------------------------------------
\* JobService: ingest jobs, their background tasks and cancellation
\* (application/job_service.py, domain/job.py, infrastructure/job_store.py)
\*
\* The coroutines run on one event loop, so a step of the model is what a
\* coroutine does between two points at which it is suspended. Neither job
\* store suspends in create, get or update; the background task is
\* suspended before its first step, inside document_service.ingest and in
\* asyncio.sleep.

MaxFiles == 2

\* job_id = f"job_{datetime.now()...}_{uuid.uuid4().hex[:8]}": the ids of the
\* jobs, in the order of their creation
JobIdsInOrder == <<"job_1", "job_2">>

\* a job id no job was created with
UnknownJobId == "job_x"

Terminal == {"completed", "failed", "cancelled"}

\* Job: status, progress.current_step, len(output_doc_ids), len(input_files)
Job(status, current_step, output_doc_ids, input_files) ==
    [status |-> status, current_step |-> current_step,
     output_doc_ids |-> output_doc_ids, input_files |-> input_files]

is_terminal(job) == job.status \in Terminal

Job_start(job) == [job EXCEPT !.status = "processing"]

Job_complete(job) == [job EXCEPT !.status = "completed"]

Job_fail(job) == [job EXCEPT !.status = "failed"]

Job_cancel(job) == [job EXCEPT !.status = "cancelled"]

update_progress(job, step) == [job EXCEPT !.current_step = step]

\* job_store.get(job_id): FileJobStore parses the file into a new Job,
\* InMemoryJobStore hands out the stored object itself
JobStore_get(js, job_id) ==
    IF job_id \in DOMAIN js.stored THEN js.stored[job_id] ELSE None

\* job_store.update(job)
JobStore_update(js, job_id, job) == [js EXCEPT !.stored[job_id] = job]

\* the Job the background task holds in its local `job`
TaskJob(js, job_id) ==
    IF js.kind = "memory" THEN js.stored[job_id] ELSE js.tasks[job_id].job

\* the task changes its `job` and hands it to job_store.update
TaskUpdate(js, job_id, job) ==
    IF js.kind = "memory" THEN JobStore_update(js, job_id, job)
    ELSE [JobStore_update(js, job_id, job) EXCEPT !.tasks[job_id].job = job]

\* a variant of Task.cancel() that requests nothing
TaskCancel_Ignored(task) == task

\* asyncio's Task.cancel(): a CancelledError is thrown into the task at the
\* point where it is suspended, the next time it runs
TaskCancel(task) ==
    IF task.at = "done" THEN task ELSE [task EXCEPT !.must_cancel = TRUE]

\* `finally`: the task reference is removed and the task is over
TaskFinally(js, job_id) ==
    [js EXCEPT !.running_tasks = @ \ {job_id}, !.tasks[job_id].at = "done"]

\* the `for i, file_path in enumerate(job.input_files)` loop reaches file i
\* with the local step: either the job completes, or progress is stored
\* and document_service.ingest is awaited
TaskNextFile(js, job_id, i, step) ==
    IF i >= TaskJob(js, job_id).input_files
    THEN TaskFinally(TaskUpdate(js, job_id, Job_complete(TaskJob(js, job_id))),
                     job_id)
    ELSE [TaskUpdate(js, job_id, update_progress(TaskJob(js, job_id), step + 1))
            EXCEPT !.tasks[job_id].at = "ingest",
                   !.tasks[job_id].i = i,
                   !.tasks[job_id].phase = 0,
                   !.tasks[job_id].step = step + 1]

\* the task's first run: job.start(), then the loop or RuntimeError
TaskStarted(js, job_id) ==
    LET got == [js EXCEPT !.tasks[job_id].job =
                              IF js.kind = "memory" THEN None
                              ELSE JobStore_get(js, job_id)]
        started == TaskUpdate(got, job_id, Job_start(TaskJob(got, job_id)))
    IN IF ~js.document_service
       THEN TaskFinally(TaskUpdate(started, job_id,
                                   Job_fail(TaskJob(started, job_id))), job_id)
       ELSE TaskNextFile(started, job_id, 0, 0)

\* the task after document_service.ingest returned or raised
TaskIngested(js, job_id, outcome) ==
    LET task == js.tasks[job_id]
        job == TaskJob(js, job_id)
    IN IF outcome = "success"
       THEN [TaskUpdate(js, job_id,
                        update_progress([job EXCEPT !.output_doc_ids = @ + 1],
                                        task.step + 1))
               EXCEPT !.tasks[job_id].at = "sleep",
                      !.tasks[job_id].phase = 1,
                      !.tasks[job_id].step = task.step + 1]
       ELSE TaskNextFile(js, job_id, task.i + 1, task.step + 4)

\* the task after asyncio.sleep(0.1): the next phase, or the next file
TaskSlept(js, job_id) ==
    LET task == js.tasks[job_id]
    IN IF task.phase < 4
       THEN [TaskUpdate(js, job_id,
                        update_progress(TaskJob(js, job_id), task.step + 1))
               EXCEPT !.tasks[job_id].phase = task.phase + 1,
                      !.tasks[job_id].step = task.step + 1]
       ELSE TaskNextFile(js, job_id, task.i + 1, task.step)

\* CancelledError in the task: before its first run the coroutine never
\* starts; otherwise `except asyncio.CancelledError` stores job.cancel()
TaskInterrupted(js, job_id) ==
    IF js.tasks[job_id].at = "created"
    THEN [js EXCEPT !.tasks[job_id].at = "done",
                    !.tasks[job_id].must_cancel = FALSE]
    ELSE [TaskFinally(TaskUpdate(js, job_id, Job_cancel(TaskJob(js, job_id))),
                      job_id)
            EXCEPT !.tasks[job_id].must_cancel = FALSE]

\* JobService.cancel_job past the `return False` test
Cancelled(js, job_id) ==
    LET stopped == IF job_id \in js.running_tasks
                   THEN [js EXCEPT !.tasks[job_id] = TaskCancel(@),
                                   !.running_tasks = @ \ {job_id}]
                   ELSE js
    IN JobStore_update(stopped, job_id, Job_cancel(JobStore_get(js, job_id)))

\* JobService.cancel_job: the value returned
cancel_job(js, job_id) ==
    ~(JobStore_get(js, job_id) = None \/ is_terminal(JobStore_get(js, job_id)))

\* JobProgressReporter.report
Reported(js, job_id, step) ==
    IF JobStore_get(js, job_id) # None /\ ~is_terminal(JobStore_get(js, job_id))
    THEN JobStore_update(js, job_id,
                         update_progress(JobStore_get(js, job_id), step))
    ELSE js

NewTask == [at |-> "created", i |-> 0, phase |-> 0, step |-> 0,
            must_cancel |-> FALSE, job |-> None]

\* ---- the job service as a state machine ----

JobKinds == {"file", "memory"}

InitJobs ==
    /\ text = <<>>
    /\ config = DefaultConfig
    /\ call = NoCall
    /\ pc = "idle"
    /\ start = 0
    /\ index = 0
    /\ chunks = <<>>
    /\ result = None
    /\ manifest = None
    /\ ingest = None
    /\ service = None
    /\ \E kind \in JobKinds, document_service \in BOOLEAN :
          jobs = [kind |-> kind, document_service |-> document_service,
                  stored |-> EmptyDict, tasks |-> EmptyDict, running_tasks |-> {}]

\* a coroutine of the callers runs: none of them is suspended half-way
JobsFrame ==
    /\ pc = "idle"
    /\ pc' = "returned"
    /\ UNCHANGED <<text, config, start, index, chunks, manifest, ingest, service>>

\* the caller has its value
JobsReturned ==
    /\ pc = "returned"
    /\ pc' = "idle"
    /\ call' = NoCall
    /\ result' = None
    /\ UNCHANGED <<text, config, start, index, chunks, manifest, application>>

\* the background task of job_id runs from where it is suspended to where
\* it is suspended next
TaskFrame(job_id, at) ==
    /\ pc = "idle"
    /\ job_id \in DOMAIN jobs.tasks
    /\ jobs.tasks[job_id].at \in at
    /\ UNCHANGED <<text, config, call, pc, start, index, chunks, result,
                   manifest, ingest, service>>

\* create_ingest_job(file_paths)
CreateIngestJob(files) ==
    /\ JobsFrame
    /\ Cardinality(DOMAIN jobs.stored) < Len(JobIdsInOrder)
    /\ LET job_id == JobIdsInOrder[Cardinality(DOMAIN jobs.stored) + 1]
       IN /\ jobs' = [jobs EXCEPT
                        !.stored = SetItem(@, job_id, Job("pending", 0, 0, files)),
                        !.tasks = SetItem(@, job_id, NewTask),
                        !.running_tasks = @ \cup {job_id}]
          /\ call' = [op |-> "create_ingest_job", files |-> files]
          /\ result' = [job_id |-> job_id]

\* _process_ingest_job up to the first await that suspends it
ProcessIngestJob(job_id) ==
    /\ TaskFrame(job_id, {"created"})
    /\ ~jobs.tasks[job_id].must_cancel
    /\ jobs' = TaskStarted(jobs, job_id)

\* results = await self.document_service.ingest([file_path])
Ingest(job_id, outcome) ==
    /\ TaskFrame(job_id, {"ingest"})
    /\ ~jobs.tasks[job_id].must_cancel
    /\ jobs' = TaskIngested(jobs, job_id, outcome)

\* await asyncio.sleep(0.1)
Sleep(job_id) ==
    /\ TaskFrame(job_id, {"sleep"})
    /\ ~jobs.tasks[job_id].must_cancel
    /\ jobs' = TaskSlept(jobs, job_id)

\* the cancelled task runs again
CancelledError(job_id) ==
    /\ TaskFrame(job_id, {"created", "ingest", "sleep"})
    /\ jobs.tasks[job_id].must_cancel
    /\ jobs' = TaskInterrupted(jobs, job_id)

\* cancel_job(job_id)
CancelJob(job_id) ==
    /\ JobsFrame
    /\ call' = [op |-> "cancel_job", job_id |-> job_id]
    /\ result' = cancel_job(jobs, job_id)
    /\ jobs' = IF cancel_job(jobs, job_id) THEN Cancelled(jobs, job_id) ELSE jobs

\* JobProgressReporter(job_service, job_id).report(step=step)
Report(job_id, step) ==
    /\ JobsFrame
    /\ call' = [op |-> "report", job_id |-> job_id, step |-> step]
    /\ result' = None
    /\ jobs' = Reported(jobs, job_id, step)

\* the server process ends and a new one starts on the same data directory:
\* the job files stay, the tasks are gone
NewJobService ==
    /\ pc = "idle"
    /\ jobs.kind = "file"
    /\ jobs.tasks # EmptyDict
    /\ jobs' = [jobs EXCEPT !.tasks = EmptyDict, !.running_tasks = {}]
    /\ UNCHANGED <<text, config, call, pc, start, index, chunks, result,
                   manifest, ingest, service>>

CalledJobIds == DOMAIN jobs.stored \cup {UnknownJobId}

NextJobs ==
    \/ JobsReturned
    \/ \E files \in 0..MaxFiles : CreateIngestJob(files)
    \/ \E job_id \in DOMAIN jobs.tasks : ProcessIngestJob(job_id)
    \/ \E job_id \in DOMAIN jobs.tasks, outcome \in {"success", "failure", "raised"} :
          Ingest(job_id, outcome)
    \/ \E job_id \in DOMAIN jobs.tasks : Sleep(job_id)
    \/ \E job_id \in DOMAIN jobs.tasks : CancelledError(job_id)
    \/ \E job_id \in CalledJobIds : CancelJob(job_id)
    \/ \E job_id \in CalledJobIds : Report(job_id, 0)
    \/ NewJobService

SpecJobs == InitJobs /\ [][NextJobs]_vars

\* C29: terminal job states are absorbing under every interleaving of
\* cancel_job, the background task and report: once a job's stored status
\* is COMPLETED, FAILED or CANCELLED it never changes again; cancel_job
\* returns True only for a job that was non-terminal and then leaves it
\* CANCELLED, and returns False without changing anything for an unknown or
\* already terminal job.
C29_TerminalAbsorbing ==
    [][/\ \A job_id \in DOMAIN jobs.stored :
             is_terminal(jobs.stored[job_id])
                => jobs'.stored[job_id].status = jobs.stored[job_id].status
       /\ (pc = "idle" /\ pc' = "returned" /\ call'.op = "cancel_job")
             => LET job_id == call'.job_id
                    live == /\ job_id \in DOMAIN jobs.stored
                            /\ ~is_terminal(jobs.stored[job_id])
                IN /\ result' = live
                   /\ live => jobs'.stored[job_id].status = "cancelled"
                   /\ ~live => jobs' = jobs
      ]_vars

\* a task that was cancelled in the middle of its phases has run its
\* CancelledError handler, next to a job that completed
C29_Witness ==
    /\ jobs # None
    /\ \E job_id \in DOMAIN jobs.tasks :
          /\ jobs.stored[job_id].status = "cancelled"
          /\ jobs.tasks[job_id].at = "done"
          /\ jobs.tasks[job_id].phase >= 2
          /\ job_id \notin jobs.running_tasks
    /\ \E job_id \in DOMAIN jobs.stored : jobs.stored[job_id].status = "completed"

\* ------------------------------------------------------------------------
\* DocumentAssets.find_section on the sections of a generated manifest

\* C30: every section of a generated manifest is retrievable by its own id:
\* find_section(s.id) returns s itself, not another section, also when
\* headings are repeated.
C30_FoundByOwnId ==
    (pc = "returned" /\ call.op = "find_section") => result = call.section

\* the same for the manifests in which no id or title of an earlier section
\* is this section's id
C30_FoundWhenIdIsNew ==
    (pc = "returned" /\ call.op = "find_section")
        => \/ result = call.section
           \/ \E k \in 1..Len(manifest.sections) :
                 /\ manifest.sections[k].start_line < call.section.start_line
                 /\ \/ PyLower(manifest.sections[k].id) = PyLower(call.section.id)
                    \/ PyLower(manifest.sections[k].title) = PyLower(call.section.id)

====
